---- MODULE Spec2Model ----
(***************************************************************************)
(* State-machine model of the sprite batch, the game loop, the camera and  *)
(* the texture loader of brendenbrusberg.com.                              *)
(*                                                                         *)
(* Numbers: the program computes in IEEE doubles.  The model computes in   *)
(* integers: pixels for positions, milliseconds for time, hundredths for   *)
(* colour channels and texture coordinates (ONE = 1.0).                    *)
(***************************************************************************)
EXTENDS Integers, Sequences, FiniteSets, TLC

(***************************************************************************)
(* Bounds of the model                                                     *)
(***************************************************************************)
\* capacity of the batch: the source sets 1000 (WebGLRenderer.ts:170); the
\* batch uses it only in "spriteCount >= MAX_SPRITES" and to size the arrays
MAX_SPRITES == 2
\* successful draw()/drawRect() calls in one behaviour
MaxDraws == 4

(***************************************************************************)
(* SpriteBatch: constants                                                  *)
(***************************************************************************)
VERTICES_PER_SPRITE == 4
INDICES_PER_SPRITE == 6
FLOATS_PER_VERTEX == 8
FloatsPerSprite == VERTICES_PER_SPRITE * FLOATS_PER_VERTEX
\* 1.0 in the fixed-point unit of colour channels and texture coordinates
ONE == 100

\* _currentTexture = null
NoTexture == "null"
\* the handle returned by _createWhiteTexture()
whiteTexture == "white"
\* texture handles owned by loaders
LoadedTextures == {"texA", "texB"}

\* a Color value
Color(r, g, b, a) == [r |-> r, g |-> g, b |-> b, a |-> a]
White == Color(ONE, ONE, ONE, ONE)
\* a highlight tint with channels above 1.0
Glow == Color(130, 120, 80, ONE)
\* getSpriteTint() in light and in dark mode
LightTint == Color(ONE, 98, 95, ONE)
DarkTint == Color(90, 90, ONE, ONE)

\* a Sprite value
Sprite(t, w, h, u0, v0, u1, v1) ==
    [texture |-> t, width |-> w, height |-> h, u0 |-> u0, v0 |-> v0, u1 |-> u1, v1 |-> v1]
\* the draw() calls of the model: (sprite, x, y) alone, with width, height and
\* tint left undefined, and calls with a full argument list
DrawInputs == { [sprite |-> Sprite("texA", 2, 3, 0, 0, ONE, ONE),
                 args |-> [x |-> 0, y |-> 0]],
               [sprite |-> Sprite("texA", 2, 3, 50, 0, ONE, 50),
                 args |-> [x |-> 5, y |-> 7, width |-> 4, height |-> 6, tint |-> Glow]],
               [sprite |-> Sprite("texB", 4, 4, 0, 0, ONE, ONE),
                 args |-> [x |-> 3, y |-> 1]] }
\* argument lists of drawRect()
RectArgs == { [x |-> 1, y |-> 2, width |-> 8, height |-> 9, color |-> Color(0, 0, 0, 90)] }

VARIABLES
    drawing,          \* SpriteBatch._drawing
    spriteCount,      \* SpriteBatch._spriteCount
    currentTexture,   \* SpriteBatch._currentTexture
    vertices,         \* SpriteBatch._vertices, index 0 .. MAX_SPRITES*32-1
    globalTint,       \* SpriteBatch._globalTint
    gpuLog,           \* GPU: one record per bufferSubData + drawElements since the last begin()
    calls,            \* the draw requests accepted since the last begin(), in call order
    flushCalls,       \* _spriteCount at each _flush() invocation since the last begin()
    lastCall,         \* the last call made on the batch and whether it threw
    drawCalls         \* number of accepted draw requests in this behaviour

batchVars == <<drawing, spriteCount, currentTexture, vertices, globalTint,
               gpuLog, calls, flushCalls, lastCall, drawCalls>>

VARIABLES
    running,          \* Game._running
    lastTime,         \* Game._lastTime (ms)
    now,              \* performance.now() (ms)
    frameTime,        \* time of the last host frame (ms)
    pending,          \* requestAnimationFrame callbacks queued for the next host frame
    ready,            \* callbacks of the current host frame that have not run yet
    ticks,            \* ticks run by the callbacks of the current host frame
    lastEvent,        \* the last operation run on the game
    cameraX,          \* Game._cameraX (px)
    cameraY,          \* Game._cameraY (px)
    renderedCamera,   \* the camera offset and surface size the last frame was rendered with
    frame,            \* the calls _render() made for the last frame, in order
    canvas,           \* the canvas: clientWidth, clientHeight, width, height
    dpr,              \* window.devicePixelRatio (hundredths)
    renderer,         \* WebGLRenderer._width, _height and the GL viewport
    character,        \* Character: position, _state, _direction
    keyboard,         \* KeyboardInput: _keys, _interact
    touch,            \* TouchInput: _targetPosition, _interact, _cameraX/Y, _characterPosition
    battle,           \* WizardBattle: _state, _lightningPosition, ... and its window listeners
    openPanel,        \* TodoAreas._openPanel
    isFullscreen,     \* WorldResume._isFullscreen
    darkMode,         \* DarkMode._mode
    tickTrace         \* what the last tick did: the camera regime, the interactions handled,
                      \* the character position its update ended with

gameVars == <<running, lastTime, now, frameTime, pending, ready, ticks, lastEvent,
              cameraX, cameraY, renderedCamera, frame, canvas, dpr, renderer, character,
              keyboard, touch, battle, openPanel, isFullscreen, darkMode, tickTrace>>

VARIABLES
    textureCache,     \* TextureLoader._textureCache: url -> texture handle (0: no entry)
    loads,            \* the load calls made: url, kind, state, texture handle returned
    fetches,          \* the urls of the image fetches issued (image.src = url), in order
    created,          \* number of textures created by _createTextureFromImage
    deleted,          \* the texture handles passed to gl.deleteTexture
    loaderOp          \* the last operation run on the loader

loaderVars == <<textureCache, loads, fetches, created, deleted, loaderOp>>

VARIABLES
    interactables,    \* InteractableManager._interactables: the states in insertion order
    interaction       \* the last call made on the manager, its arguments and its result

managerVars == <<interactables, interaction>>

VARIABLES
    projected         \* the last vertex sent through the projection matrix, and its image

projVars == <<projected>>

VARIABLES
    characterCall,    \* the last Character.update call: its arguments and the character before it
    directionCall,    \* the last InputManager.getDirection call and the vector it returned
    battleCall        \* the last call made on a WizardBattle, its argument, the battle before
                      \* it, and the pushes and updates since the last start()

callVars == <<characterCall, directionCall, battleCall>>

vars == <<batchVars, gameVars, loaderVars, managerVars, projVars, callVars>>

(***************************************************************************)
(* SpriteBatch: helpers                                                    *)
(***************************************************************************)
\* a ?? b of the optional arguments of draw()
OrDefault(args, field, default) ==
    IF field \in DOMAIN args THEN args[field] ELSE default

\* product of two fixed-point channels
Mul(a, b) == (a * b) \div ONE

\* the 32 floats draw() writes for one sprite (index 1 is offset idx + 0)
QuadFloats(sprite, args, gt) ==
    LET w  == OrDefault(args, "width", sprite.width)
        h  == OrDefault(args, "height", sprite.height)
        tint == OrDefault(args, "tint", White)
        x1 == args.x
        y1 == args.y
        x2 == args.x + w
        y2 == args.y + h
        r  == Mul(tint.r, gt.r)
        g  == Mul(tint.g, gt.g)
        b  == Mul(tint.b, gt.b)
        a  == Mul(tint.a, gt.a)
    IN  << x1, y1, sprite.u0, sprite.v0, r, g, b, a,
           x2, y1, sprite.u1, sprite.v0, r, g, b, a,
           x2, y2, sprite.u1, sprite.v1, r, g, b, a,
           x1, y2, sprite.u0, sprite.v1, r, g, b, a >>

\* this._vertices[idx + k] = ... for k = 0..31; a typed array ignores a
\* write past its end
WriteQuad(verts, idx, quad) ==
    [i \in DOMAIN verts |->
        IF i >= idx /\ i < idx + FloatsPerSprite THEN quad[i - idx + 1] ELSE verts[i]]

\* variant: the texture comparison is left out
NeedsFlushFullOnly(tex, cnt, spriteTex) ==
    cnt >= MAX_SPRITES

\* variant: the batch is taken to be full one sprite too late
NeedsFlushOffByOne(tex, cnt, spriteTex) ==
    tex # spriteTex \/ cnt > MAX_SPRITES

\* the condition under which draw() flushes first
NeedsFlush(tex, cnt, spriteTex) ==
    tex # spriteTex \/ cnt >= MAX_SPRITES

Min(a, b) == IF a < b THEN a ELSE b
Max(a, b) == IF a > b THEN a ELSE b

\* verts.subarray(0, end): the end is clamped to the length of the array
Subarray(verts, end) ==
    [i \in 1..Min(end, Cardinality(DOMAIN verts)) |-> verts[i - 1]]

\* variant: the whole preallocated array is uploaded
FlushLogWholeBuffer(cnt, tex, verts) ==
    IF cnt = 0 THEN << >>
    ELSE << [ useTexture |-> IF tex # NoTexture THEN 1 ELSE 0,
              texture    |-> IF tex # NoTexture THEN tex ELSE whiteTexture,
              data       |-> Subarray(verts, Cardinality(DOMAIN verts)),
              indexCount |-> cnt * INDICES_PER_SPRITE ] >>

\* what one _flush() submits to the GPU (the texture bound, u_useTexture, the
\* floats uploaded by bufferSubData, the index count of drawElements): nothing
\* when the count is 0
FlushLog(cnt, tex, verts) ==
    IF cnt = 0 THEN << >>
    ELSE << [ useTexture |-> IF tex # NoTexture THEN 1 ELSE 0,
              texture    |-> IF tex # NoTexture THEN tex ELSE whiteTexture,
              data       |-> Subarray(verts, cnt * VERTICES_PER_SPRITE * FLOATS_PER_VERTEX),
              indexCount |-> cnt * INDICES_PER_SPRITE ] >>

\* variant: a flush that leaves the count as it is
FlushCountKept(cnt) == cnt

\* _spriteCount after _flush()
FlushCount(cnt) == 0

\* variant: a solid-colour path that draws without a texture
RectSpriteNoTexture(args) ==
    Sprite(NoTexture, args.width, args.height, 0, 0, ONE, ONE)

\* the temporary sprite of drawRect()
RectSprite(args) ==
    Sprite(whiteTexture, args.width, args.height, 0, 0, ONE, ONE)

(***************************************************************************)
(* SpriteBatch: operations                                                 *)
(***************************************************************************)
\* variant: begin() without the lifecycle check
BeginUnguarded ==
    /\ UNCHANGED <<gameVars, loaderVars, managerVars, projVars, callVars>>
    /\ drawing' = TRUE
    /\ spriteCount' = 0
    /\ currentTexture' = NoTexture
    /\ gpuLog' = << >>
    /\ calls' = << >>
    /\ flushCalls' = << >>
    /\ lastCall' = [op |-> "begin", threw |-> drawing]
    /\ UNCHANGED <<vertices, globalTint, drawCalls>>

\* begin()
Begin ==
    /\ UNCHANGED <<gameVars, loaderVars, managerVars, projVars, callVars>>
    /\ IF drawing
       THEN /\ lastCall' = [op |-> "begin", threw |-> TRUE]
            /\ UNCHANGED <<drawing, spriteCount, currentTexture, vertices, globalTint,
                           gpuLog, calls, flushCalls, drawCalls>>
       ELSE /\ drawing' = TRUE
            /\ spriteCount' = 0
            /\ currentTexture' = NoTexture
            /\ gpuLog' = << >>
            /\ calls' = << >>
            /\ flushCalls' = << >>
            /\ lastCall' = [op |-> "begin", threw |-> FALSE]
            /\ UNCHANGED <<vertices, globalTint, drawCalls>>

\* draw(sprite, x, y, width?, height?, 0, tint?), called as op
DrawCall(op, sprite, args) ==
    /\ UNCHANGED <<gameVars, loaderVars, managerVars, projVars, callVars>>
    /\ IF ~drawing
       THEN /\ lastCall' = [op |-> op, threw |-> TRUE]
            /\ UNCHANGED <<drawing, spriteCount, currentTexture, vertices, globalTint,
                           gpuLog, calls, flushCalls, drawCalls>>
       ELSE LET flush == NeedsFlush(currentTexture, spriteCount, sprite.texture)
                cnt   == IF flush THEN FlushCount(spriteCount) ELSE spriteCount
                idx   == cnt * VERTICES_PER_SPRITE * FLOATS_PER_VERTEX
            IN  /\ drawCalls < MaxDraws
                /\ gpuLog' = IF flush
                             THEN gpuLog \o FlushLog(spriteCount, currentTexture, vertices)
                             ELSE gpuLog
                /\ flushCalls' = IF flush THEN Append(flushCalls, spriteCount) ELSE flushCalls
                /\ currentTexture' = IF flush THEN sprite.texture ELSE currentTexture
                /\ vertices' = WriteQuad(vertices, idx, QuadFloats(sprite, args, globalTint))
                /\ spriteCount' = cnt + 1
                /\ calls' = Append(calls, [sprite |-> sprite, args |-> args, gt |-> globalTint])
                /\ drawCalls' = drawCalls + 1
                /\ lastCall' = [op |-> op, threw |-> FALSE]
                /\ UNCHANGED <<drawing, globalTint>>

Draw == \E in \in DrawInputs : DrawCall("draw", in.sprite, in.args)

\* drawRect(x, y, width, height, color)
DrawRect ==
    \E args \in RectArgs :
        DrawCall("drawRect", RectSprite(args),
                 [x |-> args.x, y |-> args.y, width |-> args.width,
                  height |-> args.height, tint |-> args.color])

\* variant: end() that leaves the remainder unflushed
EndNoFlush ==
    /\ UNCHANGED <<gameVars, loaderVars, managerVars, projVars, callVars>>
    /\ IF ~drawing
       THEN /\ lastCall' = [op |-> "end", threw |-> TRUE]
            /\ UNCHANGED <<drawing, spriteCount, currentTexture, vertices, globalTint,
                           gpuLog, calls, flushCalls, drawCalls>>
       ELSE /\ spriteCount' = 0
            /\ drawing' = FALSE
            /\ lastCall' = [op |-> "end", threw |-> FALSE]
            /\ UNCHANGED <<currentTexture, vertices, globalTint, gpuLog, calls,
                           flushCalls, drawCalls>>

\* end()
End ==
    /\ UNCHANGED <<gameVars, loaderVars, managerVars, projVars, callVars>>
    /\ IF ~drawing
       THEN /\ lastCall' = [op |-> "end", threw |-> TRUE]
            /\ UNCHANGED <<drawing, spriteCount, currentTexture, vertices, globalTint,
                           gpuLog, calls, flushCalls, drawCalls>>
       ELSE /\ gpuLog' = gpuLog \o FlushLog(spriteCount, currentTexture, vertices)
            /\ flushCalls' = Append(flushCalls, spriteCount)
            /\ spriteCount' = FlushCount(spriteCount)
            /\ drawing' = FALSE
            /\ lastCall' = [op |-> "end", threw |-> FALSE]
            /\ UNCHANGED <<currentTexture, vertices, globalTint, calls, drawCalls>>

\* setGlobalTint(tint); the game calls it between batches, before begin()
SetGlobalTint ==
    /\ UNCHANGED <<gameVars, loaderVars, managerVars, projVars, callVars>>
    /\ ~drawing
    /\ \E t \in {LightTint, DarkTint} : globalTint' = t
    /\ globalTint' # globalTint
    /\ lastCall' = [op |-> "setGlobalTint", threw |-> FALSE]
    /\ UNCHANGED <<drawing, spriteCount, currentTexture, vertices, gpuLog, calls,
                   flushCalls, drawCalls>>

InitBatch ==
    /\ drawing = FALSE
    /\ spriteCount = 0
    /\ currentTexture = NoTexture
    /\ vertices = [i \in 0..(MAX_SPRITES * VERTICES_PER_SPRITE * FLOATS_PER_VERTEX - 1) |-> 0]
    /\ globalTint = White
    /\ gpuLog = << >>
    /\ calls = << >>
    /\ flushCalls = << >>
    /\ lastCall = [op |-> "new", threw |-> FALSE]
    /\ drawCalls = 0

(***************************************************************************)
(* SpriteBatch: properties                                                 *)
(***************************************************************************)
RECURSIVE Concat(_)
Concat(ss) == IF ss = << >> THEN << >> ELSE Head(ss) \o Concat(Tail(ss))

\* the texture handle of the i-th accepted draw request
CallTexture(i) == calls[i].sprite.texture

\* number of maximal runs of consecutive same-texture draw requests
NumRuns ==
    Cardinality({i \in 1..Len(calls) : i = 1 \/ CallTexture(i) # CallTexture(i - 1)})

\* some run of consecutive same-texture draw requests is longer than the capacity
LongRun ==
    \E i \in (MAX_SPRITES + 1)..Len(calls) :
        \A j \in (i - MAX_SPRITES)..i : CallTexture(j) = CallTexture(i)

\* the floats of the draw requests in call order
ExpectedFloats(from, to) ==
    Concat([k \in 1..(to - from + 1) |->
               QuadFloats(calls[from + k - 1].sprite, calls[from + k - 1].args,
                          calls[from + k - 1].gt)])

\* the floats uploaded by the flushes, in flush order
UploadedFloats == Concat([k \in 1..Len(gpuLog) |-> gpuLog[k].data])

\* C1: after end(), when no run of consecutive same-texture draw requests was
\* longer than the capacity, the number of GPU draw calls equals the number of
\* maximal same-texture runs
C1_DrawCallsEqualRuns ==
    (~drawing /\ ~LongRun) => Len(gpuLog) = NumRuns

\* C1 witness: a finished batch of four requests in three runs, one run holding
\* two sprites of one texture with different UV rectangles and tints
C1_Witness ==
    /\ ~drawing
    /\ Len(calls) = 4
    /\ NumRuns = 3
    /\ Len(gpuLog) = 3
    /\ \E i \in 1..3 : /\ CallTexture(i) = CallTexture(i + 1)
                       /\ calls[i].sprite.u0 # calls[i + 1].sprite.u0
                       /\ "tint" \in DOMAIN calls[i].args
                       /\ "tint" \notin DOMAIN calls[i + 1].args

\* the accepted draw requests all use one texture
OneTexture == \A i \in 1..Len(calls) : CallTexture(i) = CallTexture(1)

\* C2: capacity + 1 sprites of one texture in one begin()/end() give exactly
\* two flushes, the first of exactly the first `capacity` sprites, the second
\* of exactly the last one
C2_CapacityPlusOne ==
    (~drawing /\ Len(calls) = MAX_SPRITES + 1 /\ OneTexture) =>
        /\ Len(gpuLog) = 2
        /\ gpuLog[1].indexCount = MAX_SPRITES * 6
        /\ gpuLog[1].data = ExpectedFloats(1, MAX_SPRITES)
        /\ gpuLog[2].indexCount = 6
        /\ gpuLog[2].data = ExpectedFloats(MAX_SPRITES + 1, MAX_SPRITES + 1)

\* C2 witness: a finished batch of capacity + 1 sprites of one texture whose
\* last sprite differs from all the earlier ones
C2_Witness ==
    /\ ~drawing
    /\ Len(calls) = MAX_SPRITES + 1
    /\ OneTexture
    /\ Len(gpuLog) = 2
    /\ \A i \in 1..MAX_SPRITES : calls[i] # calls[MAX_SPRITES + 1]

\* C3: a call made in the wrong lifecycle state throws, and a call that throws
\* leaves the batch state, the vertex array and the GPU untouched
C3_LifecycleGuard ==
    [][ /\ (lastCall'.op \in {"draw", "drawRect", "end"} /\ ~drawing) => lastCall'.threw
        /\ (lastCall'.op = "begin" /\ drawing) => lastCall'.threw
        /\ lastCall'.threw =>
              UNCHANGED <<drawing, spriteCount, currentTexture, vertices, gpuLog>> ]_vars

\* C3 witness: begin() has thrown while sprites were pending
C3_Witness ==
    /\ lastCall = [op |-> "begin", threw |-> TRUE]
    /\ drawing
    /\ spriteCount > 0

\* C4: after end() the flushes, concatenated in flush order, hold exactly the
\* drawn sprites in call order, and no sprite is pending
C4_OrderPreserved ==
    ~drawing => /\ UploadedFloats = ExpectedFloats(1, Len(calls))
                /\ spriteCount = 0

\* C4 witness: a finished batch of four different sprites in several flushes
C4_Witness ==
    /\ ~drawing
    /\ Len(calls) = 4
    /\ Len(gpuLog) >= 2
    /\ \A i, j \in 1..4 : i # j => calls[i] # calls[j]

\* C9: a _flush() with count c > 0 submits exactly one GPU draw, of the
\* accumulated texture, the first c*4*8 floats of the vertex array and c*6
\* indices, and restarts the count at 0; a _flush() with count 0 submits nothing
C9_FlushContract ==
    [][ flushCalls' = Append(flushCalls, spriteCount) =>
          /\ spriteCount = 0 => gpuLog' = gpuLog
          /\ spriteCount > 0 =>
                /\ gpuLog' = Append(gpuLog,
                                [ useTexture |-> 1,
                                  texture    |-> currentTexture,
                                  data       |-> [i \in 1..(spriteCount * 4 * 8) |-> vertices[i - 1]],
                                  indexCount |-> spriteCount * 6 ])
                /\ spriteCount' = IF lastCall'.op = "end" THEN 0 ELSE 1 ]_vars

\* C9 witness: a flush of fewer sprites than the array holds, and a flush with
\* count 0, have both happened
C9_Witness ==
    /\ Len(gpuLog) >= 1
    /\ Len(gpuLog[1].data) < MAX_SPRITES * 4 * 8
    /\ \E k \in 1..Len(flushCalls) : flushCalls[k] = 0

\* the floats of the sprite in slot n of the vertex array
SlotFloats(verts, n) == [i \in 1..32 |-> verts[n * 32 + i - 1]]

\* C10: drawRect(x, y, w, h, color) acts as draw() of a w-by-h sprite with UV
\* (0,0)-(1,1) on the white texture tinted with color: it throws when idle,
\* joins a pending run of white quads without a flush, flushes a pending run of
\* another texture, and a draw() after it flushes the white run
C10_DrawRectIsDraw ==
    [][ /\ lastCall'.op = "drawRect" =>
            IF ~drawing THEN lastCall'.threw /\ gpuLog' = gpuLog /\ spriteCount' = spriteCount
            ELSE /\ ~lastCall'.threw
                 /\ currentTexture' = whiteTexture
                 /\ (currentTexture = whiteTexture /\ spriteCount < MAX_SPRITES) =>
                        (gpuLog' = gpuLog /\ spriteCount' = spriteCount + 1)
                 /\ (currentTexture \in LoadedTextures /\ spriteCount > 0) =>
                        /\ Len(gpuLog') = Len(gpuLog) + 1
                        /\ gpuLog'[Len(gpuLog')].texture = currentTexture
                        /\ spriteCount' = 1
                 /\ \E args \in RectArgs :
                        LET c == args.color
                            r == (c.r * globalTint.r) \div ONE
                            g == (c.g * globalTint.g) \div ONE
                            b == (c.b * globalTint.b) \div ONE
                            a == (c.a * globalTint.a) \div ONE
                            x2 == args.x + args.width
                            y2 == args.y + args.height
                        IN  SlotFloats(vertices', spriteCount' - 1) =
                              << args.x, args.y, 0, 0, r, g, b, a,
                                 x2, args.y, ONE, 0, r, g, b, a,
                                 x2, y2, ONE, ONE, r, g, b, a,
                                 args.x, y2, 0, ONE, r, g, b, a >>
        /\ (lastCall'.op = "draw" /\ ~lastCall'.threw
              /\ currentTexture = whiteTexture /\ spriteCount > 0) =>
                 /\ Len(gpuLog') = Len(gpuLog) + 1
                 /\ gpuLog'[Len(gpuLog')].texture = whiteTexture
                 /\ gpuLog'[Len(gpuLog')].indexCount = spriteCount * 6 ]_vars

\* C10 witness: a finished batch in which two consecutive drawRect() quads went
\* out in one flush between flushes of loaded textures
C10_Witness ==
    /\ ~drawing
    /\ Len(gpuLog) = 3
    /\ gpuLog[2].texture = whiteTexture
    /\ gpuLog[2].indexCount = 12
    /\ gpuLog[1].texture \in LoadedTextures
    /\ gpuLog[3].texture \in LoadedTextures

\* C30: in every reachable state of the batch the sprite count is between 0
\* and the capacity; the last draw() wrote its 32 floats inside the vertex
\* array, into the slot below the count; a positive count means the batch is
\* recording with a current texture that is not null, so every flush binds the
\* current texture with u_useTexture = 1 and never falls back to the white
\* texture with u_useTexture = 0; and an idle batch has count 0
C30_BatchInvariant ==
    /\ spriteCount \in 0..MAX_SPRITES
    /\ spriteCount > 0 =>
          /\ drawing
          /\ currentTexture # NoTexture
          /\ calls # << >>
          /\ spriteCount * FloatsPerSprite <= Cardinality(DOMAIN vertices)
          /\ LET last == calls[Len(calls)]
             IN  SlotFloats(vertices, spriteCount - 1) =
                     QuadFloats(last.sprite, last.args, last.gt)
    /\ \A k \in 1..Len(gpuLog) :
          /\ gpuLog[k].useTexture = 1
          /\ gpuLog[k].texture \in LoadedTextures \cup {whiteTexture}
          /\ gpuLog[k].indexCount \in 1..(MAX_SPRITES * INDICES_PER_SPRITE)
    /\ ~drawing => spriteCount = 0

\* C30 witness: a recording batch that is full, on the white texture, after a
\* flush of a run of another texture
C30_Witness ==
    /\ drawing
    /\ spriteCount = MAX_SPRITES
    /\ Len(gpuLog) >= 1
    /\ gpuLog[1].texture \in LoadedTextures
    /\ currentTexture = whiteTexture

(***************************************************************************)
(* World layout, character and battle constants                            *)
(***************************************************************************)
WORLD_WIDTH == 4800
WORLD_HEIGHT == 3600
WORLD_CENTER == [x |-> WORLD_WIDTH \div 2, y |-> WORLD_HEIGHT \div 2]
INTERACT_RANGE == 200
HIGHLIGHT_RANGE == 250

\* an interactable at position (x, y) whose hitbox of w x h has its centre
\* dx, dy away from the position
InteractableData(id, x, y, w, h, dx, dy) ==
    [id |-> id, x |-> x, y |-> y,
     hitbox |-> [x |-> x + dx - w \div 2, y |-> y + dy - h \div 2, width |-> w, height |-> h]]

\* the interactables in registration order (_setupInteractables); each hitbox
\* is centred on its position
Interactables ==
    << InteractableData("lightswitch", WORLD_CENTER.x - 100,  WORLD_CENTER.y - 150, 96, 144, 0, 0),
       InteractableData("wizard",      WORLD_CENTER.x - 500,  WORLD_CENTER.y,       144, 192, 0, 0),
       InteractableData("projects",    WORLD_CENTER.x - 700,  WORLD_CENTER.y - 500, 192, 144, 0, 0),
       InteractableData("gallery",     WORLD_CENTER.x - 400,  WORLD_CENTER.y + 500, 192, 144, 0, 0),
       InteractableData("house",       WORLD_CENTER.x - 1000, WORLD_CENTER.y,       192, 144, 0, 0),
       InteractableData("inspiration", WORLD_CENTER.x,        WORLD_CENTER.y + 500, 192, 144, 0, 0),
       InteractableData("mentors",     WORLD_CENTER.x + 400,  WORLD_CENTER.y + 500, 192, 144, 0, 0) >>

\* TODO_LOCATIONS in table order
TODO_LOCATIONS == SubSeq(Interactables, 3, 7)
TodoIds == {TODO_LOCATIONS[i].id : i \in 1..Len(TODO_LOCATIONS)}

\* INTERACTIVE_LOCATIONS.find(l => l.id === 'wizard').position
WizardLocation == [x |-> Interactables[2].x, y |-> Interactables[2].y]

\* the sprites 'lightswitch_on'/'lightswitch_off' (32 * 3, 48 * 3) and 'wizard' (48 * 3, 64 * 3)
LightswitchSprite == [width |-> 96, height |-> 144]
WizardSprite == [width |-> 144, height |-> 192]

\* Character: _width, _height (48 * 3, 64 * 3) and _speed (px per second)
CharacterWidth == 144
CharacterHeight == 192
CharacterSpeed == 400

\* WizardBattle settings; the lightning position is in thousandths
WIZARD_PUSH_SPEED == 250
PLAYER_PUSH_AMOUNT == 70
WIN_THRESHOLD == 80
LOSE_THRESHOLD == 920
BATTLE_SPACING == 600
\* the result is shown until _resultTimer > 3 (seconds), in ms
ResultDisplayTime == 3000

\* camera smoothing factors 0.12 and 0.08, in hundredths
FollowSmoothing == 12
BattleSmoothing == 8

\* TouchInput._arrivalThreshold
ArrivalThreshold == 30

\* a unit direction component and 1/sqrt(2), in thousandths
UnitLength == 1000
DiagonalLength == 707

NoPanel == "none"
NoTarget == [set |-> FALSE, x |-> 0, y |-> 0]
NoId == "null"

(***************************************************************************)
(* Bounds of the game model                                                *)
(***************************************************************************)
\* the clock advances in steps of ClockStep ms up to MaxTime ms
ClockStep == 1000
MaxTime == 3000
\* the length in ms of a stall of the host, during which no frame is delivered
StallTime == 6000
\* requestAnimationFrame callbacks that may be queued at one time
MaxPending == 3

\* keys of the keyboard events
MoveKeys == {"a", "d"}
\* positions of mouse clicks on the canvas, in canvas pixels
ClickPoints == { [x |-> 800, y |-> 0] }
\* the size of a canvas element without width and height attributes
DefaultCanvas == [width |-> 300, height |-> 150]
\* the canvas layout size (CSS px) and the device pixel ratio (hundredths) of a
\* small window and of a full-screen window on a 4480 x 2520 display
Displays == { [w |-> 800, h |-> 600, ratio |-> 100], [w |-> 2240, h |-> 1260, ratio |-> 200] }

\* the windows the page may be opened in: the displays and a frame of the
\* default canvas size
StartDisplays == Displays \cup { [w |-> 300, h |-> 150, ratio |-> 100] }

(***************************************************************************)
(* Arithmetic                                                              *)
(***************************************************************************)
\* division of doubles followed by the model's truncation to an integer
TruncDiv(a, b) == IF a >= 0 THEN a \div b ELSE -((-a) \div b)

\* Math.max(lo, Math.min(hi, v))
Clamp(v, lo, hi) == Max(lo, Min(hi, v))

\* the largest r in lo..hi with r * r <= n, by bisection
RECURSIVE SqrtBetween(_, _, _)
SqrtBetween(n, lo, hi) ==
    IF lo >= hi THEN lo
    ELSE LET mid == (lo + hi + 1) \div 2
         IN  IF mid * mid <= n THEN SqrtBetween(n, mid, hi) ELSE SqrtBetween(n, lo, mid - 1)

\* Math.floor(Math.sqrt(n))
ISqrt(n) == SqrtBetween(n, 0, 2 * (WORLD_WIDTH + WORLD_HEIGHT))

(***************************************************************************)
(* WebGLRenderer._resize                                                   *)
(***************************************************************************)
\* the canvas after _resize(): width and height follow the layout size
ResizeCanvas(cv, ratio) ==
    LET displayWidth  == (cv.clientWidth * (IF ratio = 0 THEN 100 ELSE ratio)) \div 100
        displayHeight == (cv.clientHeight * (IF ratio = 0 THEN 100 ELSE ratio)) \div 100
    IN  IF cv.width # displayWidth \/ cv.height # displayHeight
        THEN [cv EXCEPT !.width = displayWidth, !.height = displayHeight]
        ELSE cv

\* the renderer after _resize()
ResizeRenderer(rd, cv, ratio) ==
    LET displayWidth  == (cv.clientWidth * (IF ratio = 0 THEN 100 ELSE ratio)) \div 100
        displayHeight == (cv.clientHeight * (IF ratio = 0 THEN 100 ELSE ratio)) \div 100
    IN  IF cv.width # displayWidth \/ cv.height # displayHeight
        THEN [width |-> displayWidth, height |-> displayHeight,
              viewport |-> [w |-> displayWidth, h |-> displayHeight]]
        ELSE rd

(***************************************************************************)
(* WizardBattle                                                            *)
(***************************************************************************)
\* get isActive
IsActive(b) == b.state \in {"active", "playerWin", "wizardWin"}

\* start(playerPos, wizardPos)
BattleStart(b, wizardPos) ==
    IF b.state = "active" THEN b
    ELSE [b EXCEPT !.state = "active",
                   !.lightningPosition = 500,
                   !.resultTimer = 0,
                   !.wizardWorldPos = wizardPos,
                   !.playerWorldPos = [x |-> wizardPos.x + BATTLE_SPACING, y |-> wizardPos.y],
                   !.keyHandler = TRUE,
                   !.listeners = b.listeners + 1]

\* an end() that removes the handler and restarts the result timer but leaves the state
BattleEndKeepsState(b) ==
    [b EXCEPT !.resultTimer = 0,
              !.keyHandler = FALSE,
              !.listeners = IF b.keyHandler THEN b.listeners - 1 ELSE b.listeners]

\* end(): the state returns to idle and _keyHandler, if set, is removed
BattleEnd(b) ==
    [b EXCEPT !.state = "idle",
              !.keyHandler = FALSE,
              !.listeners = IF b.keyHandler THEN b.listeners - 1 ELSE b.listeners]

\* playerPush()
BattlePlayerPush(b) ==
    IF b.state # "active" THEN b ELSE [b EXCEPT !.playerPushPending = TRUE]

\* handleClick()
BattleHandleClick(b) ==
    IF b.state = "active" THEN BattlePlayerPush(b)
    ELSE IF b.state \in {"playerWin", "wizardWin"} THEN BattleEnd(b)
    ELSE b

\* update(deltaTime) without the clamp of the position
BattleUpdateUnclamped(b, dt) ==
    IF ~IsActive(b) THEN b
    ELSE IF b.state \in {"playerWin", "wizardWin"}
    THEN LET timed == [b EXCEPT !.resultTimer = b.resultTimer + dt]
         IN  IF timed.resultTimer > ResultDisplayTime THEN BattleEnd(timed) ELSE timed
    ELSE LET pushed  == b.lightningPosition + (WIZARD_PUSH_SPEED * dt) \div 1000
             pulled  == IF b.playerPushPending THEN pushed - PLAYER_PUSH_AMOUNT ELSE pushed
             moved   == [b EXCEPT !.lightningPosition = pulled, !.playerPushPending = FALSE]
         IN  IF pulled <= WIN_THRESHOLD
             THEN [moved EXCEPT !.state = "playerWin", !.resultTimer = 0]
             ELSE IF pulled >= LOSE_THRESHOLD
             THEN [moved EXCEPT !.state = "wizardWin", !.resultTimer = 0]
             ELSE moved

\* update(deltaTime), deltaTime in ms
BattleUpdate(b, dt) ==
    IF ~IsActive(b) THEN b
    ELSE IF b.state \in {"playerWin", "wizardWin"}
    THEN LET timed == [b EXCEPT !.resultTimer = b.resultTimer + dt]
         IN  IF timed.resultTimer > ResultDisplayTime THEN BattleEnd(timed) ELSE timed
    ELSE LET pushed  == b.lightningPosition + (WIZARD_PUSH_SPEED * dt) \div 1000
             pulled  == IF b.playerPushPending THEN pushed - PLAYER_PUSH_AMOUNT ELSE pushed
             clamped == Clamp(pulled, 0, 1000)
             moved   == [b EXCEPT !.lightningPosition = clamped, !.playerPushPending = FALSE]
         IN  IF clamped <= WIN_THRESHOLD
             THEN [moved EXCEPT !.state = "playerWin", !.resultTimer = 0]
             ELSE IF clamped >= LOSE_THRESHOLD
             THEN [moved EXCEPT !.state = "wizardWin", !.resultTimer = 0]
             ELSE moved

(***************************************************************************)
(* Input                                                                   *)
(***************************************************************************)
\* KeyboardInput.getDirection() without the division by the magnitude
KeyboardDirectionRaw(keys) ==
    LET x == (IF "d" \in keys \/ "arrowright" \in keys THEN 1 ELSE 0)
             - (IF "a" \in keys \/ "arrowleft" \in keys THEN 1 ELSE 0)
        y == (IF "s" \in keys \/ "arrowdown" \in keys THEN 1 ELSE 0)
             - (IF "w" \in keys \/ "arrowup" \in keys THEN 1 ELSE 0)
    IN  [x |-> x * UnitLength, y |-> y * UnitLength]

\* KeyboardInput.getDirection(), components in thousandths
KeyboardDirection(keys) ==
    LET x == (IF "d" \in keys \/ "arrowright" \in keys THEN 1 ELSE 0)
             - (IF "a" \in keys \/ "arrowleft" \in keys THEN 1 ELSE 0)
        y == (IF "s" \in keys \/ "arrowdown" \in keys THEN 1 ELSE 0)
             - (IF "w" \in keys \/ "arrowup" \in keys THEN 1 ELSE 0)
    IN  IF x # 0 /\ y # 0
        THEN [x |-> x * DiagonalLength, y |-> y * DiagonalLength]
        ELSE [x |-> x * UnitLength, y |-> y * UnitLength]

\* TouchInput.setCameraOffset(cameraX, cameraY)
TouchSetCameraOffset(t, cx, cy) == [t EXCEPT !.cameraX = cx, !.cameraY = cy]

\* the target lies within the arrival threshold of the character position
Arrived(t) ==
    LET dx == t.target.x - t.charX
        dy == t.target.y - t.charY
    IN  dx * dx + dy * dy < ArrivalThreshold * ArrivalThreshold

\* TouchInput.setCharacterPosition(position)
TouchSetCharacterPosition(t, pos) ==
    LET at == [t EXCEPT !.charX = pos.x, !.charY = pos.y]
    IN  IF at.target.set /\ Arrived(at) THEN [at EXCEPT !.target = NoTarget] ELSE at

\* the value returned by TouchInput.getDirection(), components in thousandths
TouchDirection(t) ==
    IF ~t.target.set \/ Arrived(t) THEN [x |-> 0, y |-> 0]
    ELSE LET dx == t.target.x - t.charX
             dy == t.target.y - t.charY
             distance == ISqrt(dx * dx + dy * dy)
         IN  [x |-> TruncDiv(dx * UnitLength, distance), y |-> TruncDiv(dy * UnitLength, distance)]

\* the touch state after TouchInput.getDirection()
TouchAfterDirection(t) ==
    IF t.target.set /\ Arrived(t) THEN [t EXCEPT !.target = NoTarget] ELSE t

\* InputManager.directionToName(dir): the octant of atan2(dir.y, dir.x), its
\* borders at odd multiples of 22.5 degrees (tan 22.5 = 0.41421, tan 67.5 = 2.41421)
DirectionToName(dir) ==
    LET ax == IF dir.x < 0 THEN -dir.x ELSE dir.x
        ay == IF dir.y < 0 THEN -dir.y ELSE dir.y
        flat  == 100000 * ay <= 41421 * ax
        steep == 100000 * ay > 241421 * ax
    IN  IF dir.x = 0 /\ dir.y = 0 THEN NoId
        ELSE IF flat THEN (IF dir.x > 0 THEN "e" ELSE "w")
        ELSE IF steep THEN (IF dir.y > 0 THEN "s" ELSE "n")
        ELSE IF dir.y > 0 THEN (IF dir.x > 0 THEN "se" ELSE "sw")
        ELSE (IF dir.x > 0 THEN "ne" ELSE "nw")

(***************************************************************************)
(* Character                                                               *)
(***************************************************************************)
\* Character.update without the assignment of _direction
CharacterUpdateKeepFacing(ch, dt, dir) ==
    IF dir.x # 0 \/ dir.y # 0
    THEN [ch EXCEPT !.x = ch.x + TruncDiv(dir.x * ((CharacterSpeed * dt) \div 1000), UnitLength),
                    !.y = ch.y + TruncDiv(dir.y * ((CharacterSpeed * dt) \div 1000), UnitLength),
                    !.state = "walk"]
    ELSE [ch EXCEPT !.state = "idle"]

\* Character.update(deltaTime, direction), deltaTime in ms; the product
\* direction * _speed * deltaTime is taken as direction * (px moved at full
\* speed) to stay within 32-bit integers
CharacterUpdate(ch, dt, dir) ==
    IF dir.x # 0 \/ dir.y # 0
    THEN [ch EXCEPT !.x = ch.x + TruncDiv(dir.x * ((CharacterSpeed * dt) \div 1000), UnitLength),
                    !.y = ch.y + TruncDiv(dir.y * ((CharacterSpeed * dt) \div 1000), UnitLength),
                    !.direction = DirectionToName(dir),
                    !.state = "walk"]
    ELSE [ch EXCEPT !.state = "idle"]

\* variant: only the x axis is clamped
ClampCharacterXOnly(ch) ==
    [ch EXCEPT !.x = Clamp(ch.x, CharacterWidth \div 2, WORLD_WIDTH - CharacterWidth \div 2)]

\* Game._clampCharacterToWorld()
ClampCharacterToWorld(ch) ==
    [ch EXCEPT !.x = Clamp(ch.x, CharacterWidth \div 2, WORLD_WIDTH - CharacterWidth \div 2),
               !.y = Clamp(ch.y, CharacterHeight \div 2, WORLD_HEIGHT - CharacterHeight \div 2)]

(***************************************************************************)
(* Interaction                                                             *)
(***************************************************************************)
\* the squared distance from (x, y) to a location
DistSq(x, y, loc) == (x - loc.x) * (x - loc.x) + (y - loc.y) * (y - loc.y)

\* the centre of a hitbox
HitboxCentre(hitbox) ==
    [x |-> hitbox.x + hitbox.width \div 2, y |-> hitbox.y + hitbox.height \div 2]

\* _isInRange with a strict comparison
IsInRangeStrict(x, y, data, range) == DistSq(x, y, HitboxCentre(data.hitbox)) < range * range

\* InteractableManager._isInRange(playerPos, data, range): sqrt(dx^2 + dy^2) <= range,
\* compared on the squares
IsInRange(x, y, data, range) == DistSq(x, y, HitboxCentre(data.hitbox)) <= range * range

\* the loop of checkInteraction over the interactables from index i on: the
\* index of the first one in range, 0 when the loop ends without one
RECURSIVE FirstInRange(_, _, _, _, _)
FirstInRange(list, i, x, y, range) ==
    IF i > Len(list) THEN 0
    ELSE IF IsInRange(x, y, list[i], range) THEN i
    ELSE FirstInRange(list, i + 1, x, y, range)

\* InteractableManager.checkInteraction(playerPos, range) on the game's
\* interactables: the id of the first interactable in range
CheckInteraction(x, y, range) ==
    LET i == FirstInRange(Interactables, 1, x, y, range)
    IN  IF i = 0 THEN NoId ELSE Interactables[i].id

\* TodoAreas.getAreaAt(x, y, radius): the first location at distance < radius
GetAreaAt(x, y, radius) ==
    LET hits == {i \in 1..Len(TODO_LOCATIONS) : DistSq(x, y, TODO_LOCATIONS[i]) < radius * radius}
    IN  IF hits = {} THEN NoId
        ELSE TODO_LOCATIONS[CHOOSE i \in hits : \A j \in hits : i <= j].id

\* TodoAreas.toggle(areaId)
TogglePanel(panel, id) == IF panel = id THEN NoPanel ELSE id

\* Game._handleInteraction(id) on the state w = [darkMode, battle, openPanel]
HandleInteraction(w, id) ==
    IF id = "lightswitch"
    THEN [w EXCEPT !.darkMode = IF w.darkMode = "dark" THEN "light" ELSE "dark"]
    ELSE IF id = "wizard"
    THEN [w EXCEPT !.battle = BattleStart(w.battle, WizardLocation)]
    ELSE IF id \in TodoIds
    THEN [w EXCEPT !.openPanel = TogglePanel(w.openPanel, id)]
    ELSE w

(***************************************************************************)
(* Camera                                                                  *)
(***************************************************************************)
\* camera += (target - camera) * smoothing
Smooth(cam, target, smoothing) == cam + TruncDiv((target - cam) * smoothing, 100)

\* Game._updateCamera(): follow the character, clamp after smoothing
UpdateCamera(cx, cy, ch, rd) ==
    LET targetX == Clamp(ch.x - rd.width \div 2, 0, WORLD_WIDTH - rd.width)
        targetY == Clamp(ch.y - rd.height \div 2, 0, WORLD_HEIGHT - rd.height)
    IN  [x |-> Clamp(Smooth(cx, targetX, FollowSmoothing), 0, WORLD_WIDTH - rd.width),
         y |-> Clamp(Smooth(cy, targetY, FollowSmoothing), 0, WORLD_HEIGHT - rd.height)]

\* Game._updateCameraBattle(): centre on the battle
UpdateCameraBattle(cx, cy, b, rd) ==
    LET battleCenterX == (b.wizardWorldPos.x + b.playerWorldPos.x) \div 2
        battleCenterY == (b.wizardWorldPos.y + b.playerWorldPos.y) \div 2
        targetX == Clamp(battleCenterX - rd.width \div 2, 0, WORLD_WIDTH - rd.width)
        targetY == Clamp(battleCenterY - rd.height \div 2, 0, WORLD_HEIGHT - rd.height)
    IN  [x |-> Smooth(cx, targetX, BattleSmoothing),
         y |-> Smooth(cy, targetY, BattleSmoothing)]

(***************************************************************************)
(* Game._render                                                            *)
(***************************************************************************)
\* a call made by _render(): a call on the batch (op), the render() of a
\* layer, or a draw of a named sprite at a screen position
Call(op, layer, what, x, y) == [op |-> op, layer |-> layer, what |-> what, x |-> x, y |-> y]
BatchCall(op) == Call(op, "batch", "", 0, 0)
LayerCall(layer) == Call("render", layer, "", 0, 0)

\* Game._isNearPosition(playerPos, targetPos, range)
IsNearPosition(ch, loc, range) == DistSq(ch.x, ch.y, loc) < range * range

\* variant: the wizard's world sprite is drawn whatever skipWizard says
RenderInteractiveElementsAll(cam, ch, dark, skipWizard) ==
    LET lightswitch == Interactables[1]
        wizard      == Interactables[2]
    IN  << Call("draw", "interactive", IF dark = "dark" THEN "lightswitch_off" ELSE "lightswitch_on",
                lightswitch.x - LightswitchSprite.width \div 2 - cam.x,
                lightswitch.y - LightswitchSprite.height - cam.y),
           Call("draw", "interactive", "wizard",
                wizard.x - WizardSprite.width \div 2 - cam.x,
                wizard.y - WizardSprite.height - cam.y) >>
        \o (IF IsNearPosition(ch, wizard, HIGHLIGHT_RANGE)
            THEN << Call("drawRect", "interactive", "indicator",
                         wizard.x - 15 - cam.x, wizard.y - WizardSprite.height - 40 - cam.y) >>
            ELSE << >>)

\* Game._renderInteractiveElements(offsetX, offsetY, skipWizard); the bob of
\* the indicator is left out of its position
RenderInteractiveElements(cam, ch, dark, skipWizard) ==
    LET lightswitch == Interactables[1]
        wizard      == Interactables[2]
    IN  << Call("draw", "interactive", IF dark = "dark" THEN "lightswitch_off" ELSE "lightswitch_on",
                lightswitch.x - LightswitchSprite.width \div 2 - cam.x,
                lightswitch.y - LightswitchSprite.height - cam.y) >>
        \o (IF skipWizard THEN << >>
            ELSE << Call("draw", "interactive", "wizard",
                         wizard.x - WizardSprite.width \div 2 - cam.x,
                         wizard.y - WizardSprite.height - cam.y) >>
                 \o (IF IsNearPosition(ch, wizard, HIGHLIGHT_RANGE)
                     THEN << Call("drawRect", "interactive", "indicator",
                                  wizard.x - 15 - cam.x, wizard.y - WizardSprite.height - 40 - cam.y) >>
                     ELSE << >>))

\* Character.render(batch, offsetX, offsetY): the sprite, the direction
\* indicator and, while walking, the feet
CharacterRender(ch, cam) ==
    LET screenX == ch.x - CharacterWidth \div 2 - cam.x
        screenY == ch.y - CharacterHeight \div 2 - cam.y
    IN  << Call("draw", "character", "character", screenX, screenY),
           Call("drawRect", "character", "direction", screenX, screenY) >>
        \o (IF ch.state = "walk"
            THEN << Call("drawRect", "character", "feet", screenX, screenY) >>
            ELSE << >>)

\* the character while it is rendered: at the battle's player position during
\* the battle (character.position = battlePos)
CharacterDrawn(ch, b) ==
    IF IsActive(b) THEN [ch EXCEPT !.x = b.playerWorldPos.x, !.y = b.playerWorldPos.y] ELSE ch

\* the character after the render: character.position = savedPos
CharacterRestored(drawn, saved) == [drawn EXCEPT !.x = saved.x, !.y = saved.y]

\* Game._render(): the calls in order
RenderCalls(cam, ch, b, dark) ==
    << BatchCall("clear"), BatchCall("setProjectionMatrix"), BatchCall("setGlobalTint"),
       BatchCall("begin"),
       LayerCall("background"),
       LayerCall("decorations") >>
    \o RenderInteractiveElements(cam, ch, dark, IsActive(b))
    \o << LayerCall("todo"), LayerCall("stats"), LayerCall("highlights") >>
    \o CharacterRender(CharacterDrawn(ch, b), cam)
    \o (IF IsActive(b) THEN << LayerCall("battle") >> ELSE << >>)
    \o << BatchCall("end") >>

(***************************************************************************)
(* Game: one tick (_update followed by _render)                            *)
(***************************************************************************)
\* the world interaction of _update: checkInteraction, then getAreaAt, each
\* handled by _handleInteraction
WorldInteraction(w, ch) ==
    LET triggered == CheckInteraction(ch.x, ch.y, INTERACT_RANGE)
        w1        == IF triggered # NoId THEN HandleInteraction(w, triggered) ELSE w
        todoArea  == GetAreaAt(ch.x, ch.y, INTERACT_RANGE)
    IN  IF todoArea # NoId THEN HandleInteraction(w1, todoArea) ELSE w1

\* the ids passed to _handleInteraction by the world interaction
HandledIds(ch) ==
    LET triggered == CheckInteraction(ch.x, ch.y, INTERACT_RANGE)
        todoArea  == GetAreaAt(ch.x, ch.y, INTERACT_RANGE)
    IN  (IF triggered # NoId THEN <<triggered>> ELSE << >>)
        \o (IF todoArea # NoId THEN <<todoArea>> ELSE << >>)

\* variant: movement is gated by an open modal only
GatedModalOnly(modalOpen, battleActive) == modalOpen

\* _update: movement is skipped while a modal is open or the battle is active
Gated(modalOpen, battleActive) == modalOpen \/ battleActive

\* variant: the interact input pushes in the battle and also interacts with
\* the world
ProcessInteractBoth(w, act, battleActive, ch) ==
    IF ~act THEN w
    ELSE IF battleActive
    THEN WorldInteraction([w EXCEPT !.battle = BattlePlayerPush(w.battle)], ch)
    ELSE WorldInteraction(w, ch)

\* _update: a consumed interact input pushes the lightning during the battle
\* and interacts with the world otherwise
ProcessInteract(w, act, battleActive, ch) ==
    IF ~act THEN w
    ELSE IF battleActive THEN [w EXCEPT !.battle = BattlePlayerPush(w.battle)]
    ELSE WorldInteraction(w, ch)

\* variant: the interact input is processed before the character is advanced
TickInteractFirst(dt) ==
    LET battleActive == IsActive(battle)
        modalOpen    == isFullscreen \/ openPanel # NoPanel
        \* wizardBattle.update(deltaTime)
        b1   == IF battleActive THEN BattleUpdate(battle, dt) ELSE battle
        \* _input.setCameraOffset, _input.update
        t1   == TouchSetCharacterPosition(TouchSetCameraOffset(touch, cameraX, cameraY), character)
        \* _input.getDirection, _character.update, _clampCharacterToWorld
        move == ~Gated(modalOpen, battleActive)
        kdir == KeyboardDirection(keyboard.keys)
        byKeyboard == kdir.x # 0 \/ kdir.y # 0
        dir  == IF byKeyboard THEN kdir ELSE TouchDirection(t1)
        t2   == IF ~move THEN t1
                ELSE IF byKeyboard THEN [t1 EXCEPT !.target = NoTarget]
                ELSE TouchAfterDirection(t1)
        c1   == IF move THEN ClampCharacterToWorld(CharacterUpdate(character, dt, dir))
                ELSE character
        \* _input.consumeInteract(): keyboard || touch
        interact == keyboard.interact \/ t2.interact
        t3   == IF keyboard.interact THEN t2 ELSE [t2 EXCEPT !.interact = FALSE]
        act  == interact /\ ~modalOpen
        w0   == [darkMode |-> darkMode, battle |-> b1, openPanel |-> openPanel]
        w1   == ProcessInteract(w0, act, battleActive, character)
        \* _updateCameraBattle or _updateCamera
        cam  == IF battleActive
                THEN UpdateCameraBattle(cameraX, cameraY, w1.battle, renderer)
                ELSE UpdateCamera(cameraX, cameraY, c1, renderer)
    IN  /\ battle' = w1.battle
        /\ darkMode' = w1.darkMode
        /\ openPanel' = w1.openPanel
        /\ touch' = t3
        /\ keyboard' = [keyboard EXCEPT !.interact = FALSE]
        /\ character' = CharacterRestored(CharacterDrawn(c1, w1.battle), c1)
        /\ frame' = RenderCalls(cam, c1, w1.battle, w1.darkMode)
        /\ cameraX' = cam.x
        /\ cameraY' = cam.y
        /\ renderedCamera' = [x |-> cam.x, y |-> cam.y,
                               width |-> renderer.width, height |-> renderer.height]
        /\ tickTrace' = [ regime   |-> IF battleActive THEN "battle" ELSE "follow",
                          modal    |-> modalOpen,
                          updated  |-> [x |-> c1.x, y |-> c1.y],
                          active   |-> battleActive,
                          moved    |-> move,
                          interact |-> interact,
                          pushed   |-> act /\ battleActive,
                          handled  |-> IF act /\ ~battleActive THEN HandledIds(character) ELSE << >> ]
        /\ UNCHANGED <<canvas, dpr, renderer, isFullscreen>>

\* _update(deltaTime) and _render(), deltaTime in ms
Tick(dt) ==
    \* each intermediate value is bound once, by quantifying over a singleton
    \E battleActive \in {IsActive(battle)} :
    \E modalOpen \in {isFullscreen \/ openPanel # NoPanel} :
    \* wizardBattle.update(deltaTime)
    \E b1 \in {IF battleActive THEN BattleUpdate(battle, dt) ELSE battle} :
    \* _input.setCameraOffset, _input.update
    \E t1 \in {TouchSetCharacterPosition(TouchSetCameraOffset(touch, cameraX, cameraY), character)} :
    \* _input.getDirection, _character.update, _clampCharacterToWorld
    \E move \in {~Gated(modalOpen, battleActive)} :
    \E kdir \in {KeyboardDirection(keyboard.keys)} :
    \E byKeyboard \in {kdir.x # 0 \/ kdir.y # 0} :
    \E dir \in {IF byKeyboard THEN kdir ELSE TouchDirection(t1)} :
    \E t2 \in {IF ~move THEN t1
                ELSE IF byKeyboard THEN [t1 EXCEPT !.target = NoTarget]
                ELSE TouchAfterDirection(t1)} :
    \E c1 \in {IF move THEN ClampCharacterToWorld(CharacterUpdate(character, dt, dir))
                ELSE character} :
    \* _input.consumeInteract(): keyboard || touch
    \E interact \in {keyboard.interact \/ t2.interact} :
    \E t3 \in {IF keyboard.interact THEN t2 ELSE [t2 EXCEPT !.interact = FALSE]} :
    \E act \in {interact /\ ~modalOpen} :
    \E w0 \in {[darkMode |-> darkMode, battle |-> b1, openPanel |-> openPanel]} :
    \E w1 \in {ProcessInteract(w0, act, battleActive, c1)} :
    \* _updateCameraBattle or _updateCamera
    \E cam \in {IF battleActive
                THEN UpdateCameraBattle(cameraX, cameraY, w1.battle, renderer)
                ELSE UpdateCamera(cameraX, cameraY, c1, renderer)} :
        /\ battle' = w1.battle
        /\ darkMode' = w1.darkMode
        /\ openPanel' = w1.openPanel
        /\ touch' = t3
        /\ keyboard' = [keyboard EXCEPT !.interact = FALSE]
        /\ character' = CharacterRestored(CharacterDrawn(c1, w1.battle), c1)
        /\ frame' = RenderCalls(cam, c1, w1.battle, w1.darkMode)
        /\ cameraX' = cam.x
        /\ cameraY' = cam.y
        /\ renderedCamera' = [x |-> cam.x, y |-> cam.y,
                               width |-> renderer.width, height |-> renderer.height]
        /\ tickTrace' = [ regime   |-> IF battleActive THEN "battle" ELSE "follow",
                          modal    |-> modalOpen,
                          updated  |-> [x |-> c1.x, y |-> c1.y],
                          active   |-> battleActive,
                          moved    |-> move,
                          interact |-> interact,
                          pushed   |-> act /\ battleActive,
                          handled  |-> IF act /\ ~battleActive THEN HandledIds(c1) ELSE << >> ]
        /\ UNCHANGED <<canvas, dpr, renderer, isFullscreen>>

\* the variables a tick may change
tickVars == <<battle, darkMode, openPanel, touch, keyboard, character, cameraX, cameraY,
              renderedCamera, frame, tickTrace, canvas, dpr, renderer, isFullscreen>>

(***************************************************************************)
(* Game: the loop                                                          *)
(***************************************************************************)
\* variant: start() without the check of _running
StartUnguarded ==
    /\ UNCHANGED <<batchVars, loaderVars, managerVars, projVars, callVars>>
    /\ ready = 0
    /\ pending < MaxPending
    /\ running' = TRUE
    /\ lastTime' = now
    /\ Tick(0)
    /\ pending' = pending + 1
    /\ lastEvent' = [op |-> "start", ticked |-> TRUE]
    /\ UNCHANGED <<now, frameTime, ready, ticks>>

\* start(): sets _lastTime and runs _loop() once, which schedules a callback
Start ==
    /\ UNCHANGED <<batchVars, loaderVars, managerVars, projVars, callVars>>
    /\ ready = 0
    /\ IF running
       THEN /\ lastEvent' = [op |-> "start", ticked |-> FALSE]
            /\ UNCHANGED <<running, lastTime, now, frameTime, pending, ready, ticks, tickVars>>
       ELSE /\ pending < MaxPending
            /\ running' = TRUE
            /\ lastTime' = now
            /\ Tick(now - now)
            /\ pending' = pending + 1
            /\ lastEvent' = [op |-> "start", ticked |-> TRUE]
            /\ UNCHANGED <<now, frameTime, ready, ticks>>

\* stop()
Stop ==
    /\ UNCHANGED <<batchVars, loaderVars, managerVars, projVars, callVars>>
    /\ ready = 0
    /\ running' = FALSE
    /\ lastEvent' = [op |-> "stop", ticked |-> FALSE]
    /\ UNCHANGED <<lastTime, now, frameTime, pending, ready, ticks, tickVars>>

\* init() constructs the game and calls start() in one task: events and the
\* passing of time follow the first start()
Started == lastEvent.op # "new"

\* time passes between events; while callbacks are queued the host runs a
\* frame at every clock step
AdvanceClock ==
    /\ UNCHANGED <<batchVars, loaderVars, managerVars, projVars, callVars>>
    /\ Started
    /\ ready = 0
    /\ pending = 0 \/ frameTime = now
    /\ now + ClockStep <= MaxTime
    /\ now' = now + ClockStep
    /\ UNCHANGED <<running, lastTime, frameTime, pending, ready, ticks, lastEvent, tickVars>>

\* the host begins a frame: the callbacks queued so far will run
HostFrame ==
    /\ UNCHANGED <<batchVars, loaderVars, managerVars, projVars, callVars>>
    /\ ready = 0
    /\ pending > 0
    /\ now > frameTime
    /\ ready' = pending
    /\ pending' = 0
    /\ frameTime' = now
    /\ ticks' = 0
    /\ lastEvent' = [op |-> "frame", ticked |-> FALSE]
    /\ UNCHANGED <<running, lastTime, now, tickVars>>

\* the host runs one queued callback: _loop()
RunCallback ==
    /\ UNCHANGED <<batchVars, loaderVars, managerVars, projVars, callVars>>
    /\ ready > 0
    /\ ready' = ready - 1
    /\ IF ~running
       THEN /\ lastEvent' = [op |-> "callback", ticked |-> FALSE]
            /\ UNCHANGED <<running, lastTime, now, frameTime, pending, ticks, tickVars>>
       ELSE /\ lastTime' = now
            /\ Tick(now - lastTime)
            /\ pending' = pending + 1
            /\ ticks' = ticks + 1
            /\ lastEvent' = [op |-> "callback", ticked |-> TRUE]
            /\ UNCHANGED <<running, now, frameTime>>

\* a frame of the running loop after the clock has passed MaxTime, the time
\* being read relative to the last frame from then on: ClockStep ms pass, the
\* host runs the queued callback and _loop() ticks and queues itself again
\* (_loop uses the time only as now - _lastTime)
SteadyFrame ==
    /\ UNCHANGED <<batchVars, loaderVars, managerVars, projVars, callVars>>
    /\ running
    /\ pending = 1
    /\ ready = 0
    /\ frameTime = now
    /\ now + ClockStep > MaxTime
    /\ Tick(ClockStep)
    /\ lastEvent' = [op |-> "callback", ticked |-> TRUE]
    /\ UNCHANGED <<running, lastTime, now, frameTime, pending, ready, ticks>>

(***************************************************************************)
(* Game: events between frames                                             *)
(***************************************************************************)
\* a movement key goes down: KeyboardInput._onKeyDown
KeyDown ==
    /\ UNCHANGED <<batchVars, loaderVars, managerVars, projVars, callVars>>
    /\ Started
    /\ ready = 0
    /\ \E k \in MoveKeys :
          /\ k \notin keyboard.keys
          /\ keyboard' = [keyboard EXCEPT !.keys = keyboard.keys \cup {k}]
    /\ UNCHANGED <<running, lastTime, now, frameTime, pending, ready, ticks, lastEvent,
                   cameraX, cameraY,
                   renderedCamera, frame, canvas, dpr, renderer, character, touch, battle,
                   openPanel, isFullscreen, darkMode, tickTrace>>

\* a movement key goes up: KeyboardInput._onKeyUp
KeyUp ==
    /\ UNCHANGED <<batchVars, loaderVars, managerVars, projVars, callVars>>
    /\ Started
    /\ ready = 0
    /\ \E k \in keyboard.keys \cap MoveKeys :
          keyboard' = [keyboard EXCEPT !.keys = keyboard.keys \ {k}]
    /\ UNCHANGED <<running, lastTime, now, frameTime, pending, ready, ticks, lastEvent,
                   cameraX, cameraY,
                   renderedCamera, frame, canvas, dpr, renderer, character, touch, battle,
                   openPanel, isFullscreen, darkMode, tickTrace>>

\* the space bar goes down: KeyboardInput._onKeyDown sets _interact, and every
\* registered battle key handler calls playerPush()
SpaceDown ==
    /\ UNCHANGED <<batchVars, loaderVars, managerVars, projVars, callVars>>
    /\ Started
    /\ ready = 0
    /\ ~keyboard.interact
    /\ keyboard' = [keyboard EXCEPT !.interact = TRUE]
    /\ battle' = IF battle.listeners > 0 THEN BattlePlayerPush(battle) ELSE battle
    /\ UNCHANGED <<running, lastTime, now, frameTime, pending, ready, ticks, lastEvent,
                   cameraX, cameraY,
                   renderedCamera, frame, canvas, dpr, renderer, character, touch,
                   openPanel, isFullscreen, darkMode, tickTrace>>

\* the window is resized or moved to another display: the resize event runs
\* WebGLRenderer._resize()
Resize ==
    /\ UNCHANGED <<batchVars, loaderVars, managerVars, projVars, callVars>>
    /\ Started
    /\ ready = 0
    /\ \E d \in Displays :
          LET cv == [canvas EXCEPT !.clientWidth = d.w, !.clientHeight = d.h]
          IN  /\ cv # canvas \/ d.ratio # dpr
              /\ dpr' = d.ratio
              /\ canvas' = ResizeCanvas(cv, d.ratio)
              /\ renderer' = ResizeRenderer(renderer, cv, d.ratio)
    /\ UNCHANGED <<running, lastTime, now, frameTime, pending, ready, ticks, lastEvent,
                   cameraX, cameraY,
                   renderedCamera, frame, character, keyboard, touch, battle,
                   openPanel, isFullscreen, darkMode, tickTrace>>

\* the host delivers no frame for StallTime ms (a busy main thread, a
\* suspended page); the loop's callback stays queued
Stall ==
    /\ UNCHANGED <<batchVars, loaderVars, managerVars, projVars, callVars>>
    /\ Started
    /\ ready = 0
    /\ frameTime = now
    /\ now <= MaxTime
    /\ now' = now + StallTime
    /\ UNCHANGED <<running, lastTime, frameTime, pending, ready, ticks, lastEvent, tickVars>>

\* TouchInput._screenToWorld(screenX, screenY)
ScreenToWorld(t, p) == [set |-> TRUE, x |-> p.x + t.cameraX, y |-> p.y + t.cameraY]

\* a left click on the canvas: TouchInput._onMouseDown sets the movement
\* target, then the click handler of Game passes the click to an active battle
CanvasClick ==
    /\ UNCHANGED <<batchVars, loaderVars, managerVars, projVars, callVars>>
    /\ Started
    /\ ready = 0
    /\ \E p \in ClickPoints :
          touch' = [touch EXCEPT !.target = ScreenToWorld(touch, p)]
    /\ battle' = IF IsActive(battle) THEN BattleHandleClick(battle) ELSE battle
    /\ UNCHANGED <<running, lastTime, now, frameTime, pending, ready, ticks, lastEvent,
                   cameraX, cameraY,
                   renderedCamera, frame, canvas, dpr, renderer, character, keyboard,
                   openPanel, isFullscreen, darkMode, tickTrace>>

\* a right click on the canvas: TouchInput._onMouseDown sets _interact
RightClick ==
    /\ UNCHANGED <<batchVars, loaderVars, managerVars, projVars, callVars>>
    /\ Started
    /\ ready = 0
    /\ ~touch.interact
    /\ touch' = [touch EXCEPT !.interact = TRUE]
    /\ UNCHANGED <<running, lastTime, now, frameTime, pending, ready, ticks, lastEvent,
                   cameraX, cameraY,
                   renderedCamera, frame, canvas, dpr, renderer, character, keyboard, battle,
                   openPanel, isFullscreen, darkMode, tickTrace>>

\* a click on the in-world resume: WorldResume.openFullscreen()
OpenFullscreen ==
    /\ UNCHANGED <<batchVars, loaderVars, managerVars, projVars, callVars>>
    /\ Started
    /\ ready = 0
    /\ ~isFullscreen
    /\ isFullscreen' = TRUE
    /\ UNCHANGED <<running, lastTime, now, frameTime, pending, ready, ticks, lastEvent,
                   cameraX, cameraY,
                   renderedCamera, frame, canvas, dpr, renderer, character, keyboard, touch, battle,
                   openPanel, darkMode, tickTrace>>

\* the Escape key goes down: the handlers of WorldResume, of an open TODO
\* panel and of a started battle close what they belong to
EscapeDown ==
    /\ UNCHANGED <<batchVars, loaderVars, managerVars, projVars, callVars>>
    /\ Started
    /\ ready = 0
    /\ isFullscreen \/ openPanel # NoPanel \/ battle.listeners > 0
    /\ isFullscreen' = FALSE
    /\ openPanel' = NoPanel
    /\ battle' = IF battle.listeners > 0 THEN BattleEnd(battle) ELSE battle
    /\ UNCHANGED <<running, lastTime, now, frameTime, pending, ready, ticks, lastEvent,
                   cameraX, cameraY,
                   renderedCamera, frame, canvas, dpr, renderer, character, keyboard, touch,
                   darkMode, tickTrace>>

\* the canvas and renderer after `new WebGLRenderer(canvas)` in a window of
\* layout size and pixel ratio d: _width and _height start at 0, the GL
\* viewport at the size of the canvas, and the constructor calls _resize()
NewRenderer(d) ==
    LET cv == [clientWidth |-> d.w, clientHeight |-> d.h,
               width |-> DefaultCanvas.width, height |-> DefaultCanvas.height]
        rd == [width |-> 0, height |-> 0,
               viewport |-> [w |-> DefaultCanvas.width, h |-> DefaultCanvas.height]]
    IN  [canvas |-> ResizeCanvas(cv, d.ratio), renderer |-> ResizeRenderer(rd, cv, d.ratio)]

\* the game after `new Game(canvas)` in a window of layout size and ratio d
InitGameIn(d) ==
    /\ running = FALSE
    /\ lastTime = 0
    /\ now = 0
    /\ frameTime = 0
    /\ pending = 0
    /\ ready = 0
    /\ ticks = 0
    /\ lastEvent = [op |-> "new", ticked |-> FALSE]
    /\ cameraX = 0
    /\ cameraY = 0
    /\ renderedCamera = [x |-> 0, y |-> 0, width |-> NewRenderer(d).renderer.width,
                         height |-> NewRenderer(d).renderer.height]
    /\ frame = << >>
    /\ dpr = d.ratio
    /\ canvas = NewRenderer(d).canvas
    /\ renderer = NewRenderer(d).renderer
    /\ character = [x |-> WORLD_CENTER.x, y |-> WORLD_CENTER.y, state |-> "idle", direction |-> "s"]
    /\ keyboard = [keys |-> {}, interact |-> FALSE]
    /\ touch = [target |-> NoTarget, interact |-> FALSE, cameraX |-> 0, cameraY |-> 0,
                charX |-> 0, charY |-> 0]
    /\ battle = [state |-> "idle", lightningPosition |-> 500, resultTimer |-> 0,
                 playerPushPending |-> FALSE,
                 wizardWorldPos |-> [x |-> 0, y |-> 0], playerWorldPos |-> [x |-> 0, y |-> 0],
                 keyHandler |-> FALSE, listeners |-> 0]
    /\ openPanel = NoPanel
    /\ isFullscreen = FALSE
    /\ darkMode = "light"
    /\ tickTrace = [regime |-> "follow", modal |-> FALSE, active |-> FALSE, moved |-> FALSE,
                    updated |-> [x |-> WORLD_CENTER.x, y |-> WORLD_CENTER.y],
                    interact |-> FALSE, pushed |-> FALSE, handled |-> << >>]

\* the game after `new Game(canvas)` in an 800 x 600 window at ratio 1
InitGame == InitGameIn([w |-> 800, h |-> 600, ratio |-> 100])

\* the game constructed in any of the windows
InitGameAnywhere == \E d \in StartDisplays : InitGameIn(d)

(***************************************************************************)
(* Game loop and camera: properties                                        *)
(***************************************************************************)
\* C5: at most one frame callback of the loop is queued at any time, and the
\* callbacks of one host frame run at most one tick
C5_OneCallbackPending ==
    /\ pending + ready <= 1
    /\ ticks <= 1

\* C6: the camera offset a frame is rendered with lies within
\* [0, WORLD_WIDTH - width] x [0, WORLD_HEIGHT - height] of the surface size
\* the frame is rendered with, in follow and in battle mode alike
C6_CameraWithinWorld ==
    /\ 0 <= renderedCamera.x
    /\ renderedCamera.x <= WORLD_WIDTH - renderedCamera.width
    /\ 0 <= renderedCamera.y
    /\ renderedCamera.y <= WORLD_HEIGHT - renderedCamera.height

\* the camera bound of C6 on the frames rendered by follow-mode ticks
C6_FollowCameraWithinWorld ==
    tickTrace.regime = "follow" => C6_CameraWithinWorld

\* C18: the renderer's width and height are the canvas's pixel-buffer size,
\* floor(clientWidth * ratio) by floor(clientHeight * ratio), and the GL
\* viewport covers that size, after construction and after every resize event
C18_SurfaceSize ==
    LET displayWidth  == (canvas.clientWidth * dpr) \div 100
        displayHeight == (canvas.clientHeight * dpr) \div 100
    IN  /\ renderer.width = displayWidth
        /\ renderer.height = displayHeight
        /\ canvas.width = displayWidth
        /\ canvas.height = displayHeight
        /\ renderer.viewport = [w |-> displayWidth, h |-> displayHeight]

\* a step that is a call of start()
StartStep == lastEvent'.op = "start" /\ lastEvent' # lastEvent

\* C8: start() while the loop is running runs no tick, queues no callback and
\* changes neither the previous-tick timestamp nor any other game state
C8_StartIdempotent ==
    [][ (StartStep /\ running) =>
            /\ ~lastEvent'.ticked
            /\ UNCHANGED <<running, lastTime, pending, ready, ticks, tickVars>> ]_vars

\* C8 witness: start() has returned while the loop was running, some time
\* after the previous tick
C8_Witness ==
    /\ lastEvent = [op |-> "start", ticked |-> FALSE]
    /\ running
    /\ pending = 1
    /\ now > lastTime

(***************************************************************************)
(* One tick: properties                                                    *)
(***************************************************************************)
\* a step that runs one tick: the callback of a frame, or start()
TickStep ==
    \/ ticks' = ticks + 1
    \/ lastEvent'.op = "start" /\ lastEvent'.ticked /\ lastEvent' # lastEvent

\* C11: a tick consumes the interact input once and acts on one side only: with
\* the battle active at the tick it leaves dark mode, the TODO panel and the
\* battle's start untouched and handles no interactable; with the battle not
\* active it requests no push; a push is requested only by an interact input
C11_InteractOneSide ==
    [][ TickStep =>
          /\ ~keyboard'.interact
          /\ ~(keyboard.interact /\ touch.interact) => ~touch'.interact
          /\ IsActive(battle) =>
                /\ darkMode' = darkMode
                /\ openPanel' = openPanel
                /\ battle'.listeners <= battle.listeners
                /\ tickTrace'.handled = << >>
                /\ battle'.playerPushPending => (keyboard.interact \/ touch.interact)
          /\ ~IsActive(battle) =>
                /\ ~tickTrace'.pushed
                /\ battle'.playerPushPending = battle.playerPushPending ]_vars

\* C11 witness: a tick during the active battle consumed an interact input
\* and requested a push
C11_Witness ==
    /\ tickTrace.pushed
    /\ tickTrace.handled = << >>
    /\ battle.state = "active"
    /\ battle.playerPushPending
    /\ ~keyboard.interact

\* C12: a tick that begins with the fullscreen resume or a TODO panel open, or
\* with the battle active, leaves the character's position, direction and
\* walk/idle state as they were
C12_GatedNoMovement ==
    [][ (TickStep /\ (isFullscreen \/ openPanel # NoPanel \/ IsActive(battle)))
            => character' = character ]_vars

\* C12 witness: a tick has run with a TODO panel open and a movement key held
C12_Witness ==
    /\ tickTrace.modal
    /\ ~tickTrace.active
    /\ openPanel # NoPanel
    /\ ~isFullscreen
    /\ keyboard.keys = {"a"}
    /\ ~tickTrace.moved

\* C13: the character stays within the world by half its size on each axis
C13_CharacterWithinWorld ==
    /\ CharacterWidth \div 2 <= character.x
    /\ character.x <= WORLD_WIDTH - CharacterWidth \div 2
    /\ CharacterHeight \div 2 <= character.y
    /\ character.y <= WORLD_HEIGHT - CharacterHeight \div 2

\* C13 witness: a tick moved the character against the upper edge of the world
C13_Witness ==
    /\ tickTrace.moved
    /\ character.y = CharacterHeight \div 2
    /\ character.state = "walk"

LayerRank(layer) ==
    CASE layer = "background"  -> 1
      [] layer = "decorations" -> 2
      [] layer = "interactive" -> 3
      [] layer = "todo"        -> 4
      [] layer = "stats"       -> 5
      [] layer = "highlights"  -> 6
      [] layer = "character"   -> 7
      [] layer = "battle"      -> 8

C16_CameraByMode ==
    [][ TickStep => (tickTrace'.regime = "battle" <=> IsActive(battle')) ]_vars

(***************************************************************************)
(* TextureLoader                                                           *)
(***************************************************************************)
\* image urls of the load calls
Urls == {"a.png", "b.png"}
\* load calls in one behaviour
MaxLoads == 3

InitLoader ==
    /\ textureCache = [u \in Urls |-> 0]
    /\ loads = << >>
    /\ fetches = << >>
    /\ created = 0
    /\ deleted = {}
    /\ loaderOp = "new"

\* loadTexture(url) up to its await: a cached handle is returned at once,
\* otherwise the image fetch is issued
LoadTexture ==
    /\ UNCHANGED <<batchVars, gameVars, managerVars, projVars, callVars>>
    /\ loaderOp' = "loadTexture"
    /\ Len(loads) < MaxLoads
    /\ \E url \in Urls :
          IF textureCache[url] # 0
          THEN /\ loads' = Append(loads, [url |-> url, kind |-> "texture",
                                          state |-> "resolved", texture |-> textureCache[url]])
               /\ UNCHANGED <<textureCache, fetches, created, deleted>>
          ELSE /\ loads' = Append(loads, [url |-> url, kind |-> "texture",
                                          state |-> "fetching", texture |-> 0])
               /\ fetches' = Append(fetches, url)
               /\ UNCHANGED <<textureCache, created, deleted>>

\* loadSprite(url) up to its await: the image fetch is issued, whatever the
\* cache holds
LoadSprite ==
    /\ UNCHANGED <<batchVars, gameVars, managerVars, projVars, callVars>>
    /\ loaderOp' = "loadSprite"
    /\ Len(loads) < MaxLoads
    /\ \E url \in Urls :
          /\ loads' = Append(loads, [url |-> url, kind |-> "sprite",
                                     state |-> "fetching", texture |-> 0])
          /\ fetches' = Append(fetches, url)
          /\ UNCHANGED <<textureCache, created, deleted>>

\* image.onload of a load in flight: the call resumes, creates a texture,
\* stores it in the cache under the url and returns it
ImageLoaded ==
    /\ UNCHANGED <<batchVars, gameVars, managerVars, projVars, callVars>>
    /\ loaderOp' = "loaded"
    /\ \E i \in 1..Len(loads) :
          /\ loads[i].state = "fetching"
          /\ created' = created + 1
          /\ textureCache' = [textureCache EXCEPT ![loads[i].url] = created + 1]
          /\ loads' = [loads EXCEPT ![i].state = "resolved", ![i].texture = created + 1]
          /\ UNCHANGED <<fetches, deleted>>

\* image.onerror of a load in flight: the call rejects
ImageError ==
    /\ UNCHANGED <<batchVars, gameVars, managerVars, projVars, callVars>>
    /\ loaderOp' = "error"
    /\ \E i \in 1..Len(loads) :
          /\ loads[i].state = "fetching"
          /\ loads' = [loads EXCEPT ![i].state = "rejected"]
          /\ UNCHANGED <<textureCache, fetches, created, deleted>>

\* dispose(): deletes the textures the cache holds and clears the cache
Dispose ==
    /\ UNCHANGED <<batchVars, gameVars, managerVars, projVars, callVars>>
    /\ loaderOp' = "dispose"
    /\ deleted' = deleted \cup {textureCache[u] : u \in {v \in Urls : textureCache[v] # 0}}
    /\ textureCache' = [u \in Urls |-> 0]
    /\ UNCHANGED <<loads, fetches, created>>

\* C7: any two load calls with one url resolve to the same texture handle, and
\* at most one image fetch is issued for each url
C7_OneFetchPerUrl ==
    /\ \A i, j \in 1..Len(loads) :
          (loads[i].url = loads[j].url /\ loads[i].state = "resolved"
             /\ loads[j].state = "resolved") => loads[i].texture = loads[j].texture
    /\ \A u \in Urls : Cardinality({k \in 1..Len(fetches) : fetches[k] = u}) <= 1

\* C17: right after dispose() every texture the loader created for a loaded
\* image has been deleted and the cache holds no entry
C17_DisposeReleasesAll ==
    loaderOp = "dispose" =>
        /\ \A h \in 1..created : h \in deleted
        /\ \A u \in Urls : textureCache[u] = 0

(***************************************************************************)
(* InteractableManager                                                     *)
(***************************************************************************)
\* InteractableManager._effectDuration (ms)
effectDuration == 500
\* the deltaTime of one update() of the manager (ms)
ManagerStep == 300

\* the interactables given to a manager on its own: a lamp whose hitbox is
\* centred at (500, 500), a gate 300 px below it, and a crate whose hitbox
\* centre lies 100 px right of its position
InteractablePool ==
    { InteractableData("lamp",  500, 500, 96, 144, 0, 0),
      InteractableData("gate",  500, 800, 192, 144, 0, 0),
      InteractableData("crate", 1400, 500, 100, 100, 100, 0) }

\* the player positions of the checkInteraction calls: 199, 200 and 201 px from
\* the centre of the lamp, 150 px from both the lamp and the gate, 180 px from
\* the position of the crate, 180 px from the centre of its hitbox, and far
\* from everything
PlayerPositions ==
    { [x |-> 699, y |-> 500], [x |-> 700, y |-> 500], [x |-> 701, y |-> 500],
      [x |-> 500, y |-> 650], [x |-> 1220, y |-> 500], [x |-> 1680, y |-> 500],
      [x |-> 3000, y |-> 3000] }

\* the state add() stores for an interactable
NewInteractableState(data) ==
    [data |-> data, isTriggered |-> FALSE, triggerTime |-> 0, visualEffect |-> 0]

\* the data of the states of a manager, in insertion order
DataOf(states) == [i \in 1..Len(states) |-> states[i].data]

\* the indices of the states stored under an id
IndicesOf(states, id) == {i \in 1..Len(states) : states[i].data.id = id}

InitManager ==
    /\ interactables = << >>
    /\ interaction = [op |-> "new"]

\* add(data): Map.set, which keeps the place of a key that is present
AddInteractable ==
    \E data \in InteractablePool :
        /\ interactables' =
               IF IndicesOf(interactables, data.id) = {}
               THEN Append(interactables, NewInteractableState(data))
               ELSE [i \in 1..Len(interactables) |->
                        IF interactables[i].data.id = data.id
                        THEN NewInteractableState(data) ELSE interactables[i]]
        /\ interaction' = [op |-> "add", id |-> data.id]
        /\ UNCHANGED <<batchVars, gameVars, loaderVars, projVars, callVars>>

\* remove(id): Map.delete
RemoveInteractable ==
    \E data \in InteractablePool :
        /\ interactables' = SelectSeq(interactables, LAMBDA st : st.data.id # data.id)
        /\ interaction' = [op |-> "remove", id |-> data.id]
        /\ UNCHANGED <<batchVars, gameVars, loaderVars, projVars, callVars>>

\* _trigger(state): the state changes of a trigger
Trigger(state) ==
    [state EXCEPT !.isTriggered = TRUE, !.triggerTime = 0, !.visualEffect = 1000]

\* checkInteraction(playerPos, INTERACT_RANGE) on the manager
CheckInteractionCall ==
    \E pos \in PlayerPositions :
        LET i == FirstInRange(DataOf(interactables), 1, pos.x, pos.y, INTERACT_RANGE)
        IN  /\ interactables' =
                   IF i = 0 THEN interactables
                   ELSE [interactables EXCEPT ![i] = Trigger(interactables[i])]
            /\ interaction' = [op |-> "checkInteraction", pos |-> pos, range |-> INTERACT_RANGE,
                               result |-> IF i = 0 THEN NoId ELSE interactables[i].data.id,
                               before |-> interactables]
            /\ UNCHANGED <<batchVars, gameVars, loaderVars, projVars, callVars>>

\* the body of the loop of update(deltaTime) for one state (visualEffect in
\* thousandths)
UpdateInteractable(state, dt) ==
    IF state.visualEffect > 0
    THEN LET t == state.triggerTime + dt
             v == Max(0, 1000 - TruncDiv(t * 1000, effectDuration))
         IN  [state EXCEPT !.triggerTime = t, !.visualEffect = v,
                           !.isTriggered = IF v <= 0 THEN FALSE ELSE state.isTriggered]
    ELSE state

\* update(deltaTime)
UpdateInteractables ==
    /\ interactables' = [i \in 1..Len(interactables) |->
                            UpdateInteractable(interactables[i], ManagerStep)]
    /\ interaction' = [op |-> "update"]
    /\ UNCHANGED <<batchVars, gameVars, loaderVars, projVars, callVars>>

\* the squared distance from a player position to the centre of a hitbox
CentreDistSq(pos, hitbox) ==
    LET cx == hitbox.x + hitbox.width \div 2
        cy == hitbox.y + hitbox.height \div 2
    IN  (pos.x - cx) * (pos.x - cx) + (pos.y - cy) * (pos.y - cy)

\* the indices, in the manager a checkInteraction call found, of the
\* interactables whose hitbox centre is within the range of the call
WithinRange ==
    {i \in 1..Len(interaction.before) :
        CentreDistSq(interaction.pos, interaction.before[i].data.hitbox)
            <= interaction.range * interaction.range}

\* C19: checkInteraction(playerPos, range) triggers an interactable exactly
\* when the distance from playerPos to the centre of its hitbox is at most
\* range (199 px triggers at range 200, 201 px does not); it triggers and
\* returns the first such interactable in registration order and no other,
\* and triggers nothing and returns null when there is none.
C19_CheckInteraction ==
    interaction.op = "checkInteraction" =>
        /\ WithinRange = {} =>
               /\ interaction.result = NoId
               /\ interactables = interaction.before
        /\ WithinRange # {} =>
               \E i \in WithinRange :
                   /\ \A j \in WithinRange : i <= j
                   /\ interaction.result = interaction.before[i].data.id
                   /\ interactables = [interaction.before EXCEPT
                                          ![i] = [@ EXCEPT !.isTriggered = TRUE,
                                                           !.triggerTime = 0,
                                                           !.visualEffect = 1000]]
        /\ (interaction.pos = [x |-> 699, y |-> 500]
               /\ IndicesOf(interaction.before, "lamp") # {}) => interaction.result = "lamp"
        /\ (interaction.pos = [x |-> 701, y |-> 500]) => interaction.result = NoId

\* a call from a place within range of both the lamp and the gate, made when
\* the gate was registered before the lamp, has triggered and returned the gate
C19_Witness ==
    /\ interaction.op = "checkInteraction"
    /\ interaction.pos = [x |-> 500, y |-> 650]
    /\ Cardinality(WithinRange) = 2
    /\ interaction.before[1].data.id = "gate"
    /\ interaction.result = "gate"
    /\ interactables[1].isTriggered
    /\ ~interactables[2].isTriggered

(***************************************************************************)
(* Projection                                                              *)
(***************************************************************************)
\* the largest width and height (px) of the small surfaces
MaxSurface == 11

\* the windows a projection is made for: the windows of the page and the
\* small ones of every layout size up to MaxSurface, at ratio 1
SurfaceDisplays ==
    StartDisplays \cup { [w |-> w, h |-> h, ratio |-> 100] : w \in 1..MaxSurface, h \in 1..MaxSurface }

\* the quotient n / d of two numbers, kept exact
Rat(n, d) == [num |-> n, den |-> d]
RatMul(a, b) == Rat(a.num * b.num, a.den * b.den)
RatAdd(a, b) == Rat(a.num * b.den + b.num * a.den, a.den * b.den)
RatEq(a, b) == a.num * b.den = b.num * a.den

\* createProjectionMatrix() with bottom and top exchanged
CreateProjectionMatrixYUp(rd) ==
    LET left == 0
        right == rd.width
        bottom == 0
        top == rd.height
        near == -1
        far == 1
    IN  << Rat(2, right - left), Rat(0, 1), Rat(0, 1), Rat(0, 1),
           Rat(0, 1), Rat(2, top - bottom), Rat(0, 1), Rat(0, 1),
           Rat(0, 1), Rat(0, 1), Rat(-2, far - near), Rat(0, 1),
           Rat(-(right + left), right - left), Rat(-(top + bottom), top - bottom),
           Rat(-(far + near), far - near), Rat(1, 1) >>

\* WebGLRenderer.createProjectionMatrix(): the 16 entries in column-major order
CreateProjectionMatrix(rd) ==
    LET left == 0
        right == rd.width
        bottom == rd.height
        top == 0
        near == -1
        far == 1
    IN  << Rat(2, right - left), Rat(0, 1), Rat(0, 1), Rat(0, 1),
           Rat(0, 1), Rat(2, top - bottom), Rat(0, 1), Rat(0, 1),
           Rat(0, 1), Rat(0, 1), Rat(-2, far - near), Rat(0, 1),
           Rat(-(right + left), right - left), Rat(-(top + bottom), top - bottom),
           Rat(-(far + near), far - near), Rat(1, 1) >>

\* row r of the product of a column-major 4 x 4 matrix and a vector
MatVecRow(m, v, r) ==
    RatAdd(RatAdd(RatAdd(RatMul(m[r], v[1]), RatMul(m[4 + r], v[2])),
                  RatMul(m[8 + r], v[3])),
           RatMul(m[12 + r], v[4]))

\* sprite.vert: gl_Position = u_projection * vec4(a_position, 0.0, 1.0)
GlPosition(m, pos) ==
    LET v == << pos.x, pos.y, Rat(0, 1), Rat(1, 1) >>
    IN  [x |-> MatVecRow(m, v, 1), y |-> MatVecRow(m, v, 2),
         z |-> MatVecRow(m, v, 3), w |-> MatVecRow(m, v, 4)]

\* the centre and the corners of a surface, in pixels
ViewportPoints(rd) ==
    { [x |-> Rat(rd.width, 2), y |-> Rat(rd.height, 2)],
      [x |-> Rat(0, 1), y |-> Rat(0, 1)],
      [x |-> Rat(rd.width, 1), y |-> Rat(0, 1)],
      [x |-> Rat(0, 1), y |-> Rat(rd.height, 1)],
      [x |-> Rat(rd.width, 1), y |-> Rat(rd.height, 1)] }

InitProjected == projected = [op |-> "none"]

\* a vertex at one of the points of the surface is drawn with the matrix of
\* createProjectionMatrix() as u_projection
ProjectVertex ==
    \E pos \in ViewportPoints(renderer) :
        /\ projected' = [op |-> "project", width |-> renderer.width, height |-> renderer.height,
                         point |-> pos,
                         position |-> GlPosition(CreateProjectionMatrix(renderer), pos)]
        /\ UNCHANGED <<batchVars, gameVars, loaderVars, managerVars, callVars>>

\* the last vertex was the pixel point (px, py)
ProjectedFrom(px, py) ==
    /\ RatEq(projected.point.x, px)
    /\ RatEq(projected.point.y, py)

\* the image of the last vertex is the device coordinate (dx, dy)
ProjectedTo(dx, dy) ==
    /\ RatEq(projected.position.w, Rat(1, 1))
    /\ RatEq(projected.position.x, Rat(dx, 1))
    /\ RatEq(projected.position.y, Rat(dy, 1))

\* C20: for a surface of positive width w and height h, the matrix of
\* createProjectionMatrix() maps the pixel point (w/2, h/2) to the device
\* coordinate (0, 0) and the corners (0,0), (w,0), (0,h), (w,h) to (-1,1),
\* (1,1), (-1,-1), (1,-1).
C20_ProjectionMapsViewport ==
    (projected.op = "project" /\ projected.width > 0 /\ projected.height > 0) =>
        LET w == projected.width
            h == projected.height
        IN  /\ ProjectedFrom(Rat(w, 2), Rat(h, 2)) => ProjectedTo(0, 0)
            /\ ProjectedFrom(Rat(0, 1), Rat(0, 1)) => ProjectedTo(-1, 1)
            /\ ProjectedFrom(Rat(w, 1), Rat(0, 1)) => ProjectedTo(1, 1)
            /\ ProjectedFrom(Rat(0, 1), Rat(h, 1)) => ProjectedTo(-1, -1)
            /\ ProjectedFrom(Rat(w, 1), Rat(h, 1)) => ProjectedTo(1, -1)

\* the bottom-right corner of a 7 x 5 surface has been mapped to (1, -1)
C20_Witness ==
    /\ projected.op = "project"
    /\ projected.width = 7
    /\ projected.height = 5
    /\ ProjectedFrom(Rat(7, 1), Rat(5, 1))
    /\ ProjectedTo(1, -1)

(***************************************************************************)
(* Character, InputManager and WizardBattle on their own                   *)
(***************************************************************************)
InitCalls ==
    /\ characterCall = [op |-> "none", count |-> 0]
    /\ directionCall = [op |-> "none"]
    /\ battleCall = [op |-> "new", dt |-> 0, pushed |-> FALSE, updates |-> 0]

\* the number of update calls made on the character
MaxUpdates == 2

\* the deltaTime values (ms) of the update calls
UpdateDeltas == {100, 250}

\* the direction arguments of the update calls (thousandths): zero, the eight
\* keyboard directions, and unit vectors towards touch targets at -53.1, 22.6,
\* 112.6 and -157.4 degrees
DirectionInputs ==
    { [x |-> 0, y |-> 0],
      [x |-> 1000, y |-> 0], [x |-> 707, y |-> 707], [x |-> 0, y |-> 1000],
      [x |-> -707, y |-> 707], [x |-> -1000, y |-> 0], [x |-> -707, y |-> -707],
      [x |-> 0, y |-> -1000], [x |-> 707, y |-> -707],
      [x |-> 600, y |-> -800], [x |-> 923, y |-> 384], [x |-> -384, y |-> 923],
      [x |-> -923, y |-> -384] }

\* character.update(deltaTime, direction)
UpdateCharacter ==
    \E dt \in UpdateDeltas, dir \in DirectionInputs :
        /\ characterCall.count < MaxUpdates
        /\ character' = CharacterUpdate(character, dt, dir)
        /\ characterCall' = [op |-> "update", dt |-> dt, dir |-> dir, before |-> character,
                             count |-> characterCall.count + 1]
        /\ UNCHANGED <<running, lastTime, now, frameTime, pending, ready, ticks, lastEvent,
                       cameraX, cameraY, renderedCamera, frame, canvas, dpr, renderer,
                       keyboard, touch, battle, openPanel, isFullscreen, darkMode, tickTrace>>
        /\ UNCHANGED <<directionCall, battleCall>>
        /\ UNCHANGED <<batchVars, loaderVars, managerVars, projVars>>

\* the deltaTime values (ms) of the update calls on the battle
BattleDeltas == {0, 400, 1600}

\* the keydown handlers a battle may have registered on the window
MaxListeners == 2

\* the game variables a call on the battle leaves alone
battleFrame == <<running, lastTime, now, frameTime, pending, ready, ticks, lastEvent,
                 cameraX, cameraY, renderedCamera, frame, canvas, dpr, renderer, character,
                 keyboard, touch, openPanel, isFullscreen, darkMode, tickTrace>>

\* the record of a call: pushed tells whether playerPush() has been called
\* since the last start() that started a battle, updates counts the update()
\* calls since then (up to 2)
CallRecord(op, dt, pushed, updates) ==
    [op |-> op, dt |-> dt, before |-> battle, pushed |-> pushed, updates |-> updates]

\* wizardBattle.start(playerPos, wizardPos)
CallStart ==
    /\ battle.listeners < MaxListeners
    /\ battle' = BattleStart(battle, WizardLocation)
    /\ battleCall' = IF battle.state = "active"
                     THEN CallRecord("start", 0, battleCall.pushed, battleCall.updates)
                     ELSE CallRecord("start", 0, FALSE, 0)
    /\ UNCHANGED <<battleFrame, characterCall, directionCall>>
    /\ UNCHANGED <<batchVars, loaderVars, managerVars, projVars>>

\* wizardBattle.end(): the Escape key of the battle's handler or the timeout
CallEnd ==
    /\ battle' = BattleEnd(battle)
    /\ battleCall' = CallRecord("end", 0, battleCall.pushed, battleCall.updates)
    /\ UNCHANGED <<battleFrame, characterCall, directionCall>>
    /\ UNCHANGED <<batchVars, loaderVars, managerVars, projVars>>

\* wizardBattle.playerPush()
CallPlayerPush ==
    /\ battle' = BattlePlayerPush(battle)
    /\ battleCall' = CallRecord("playerPush", 0, TRUE, battleCall.updates)
    /\ UNCHANGED <<battleFrame, characterCall, directionCall>>
    /\ UNCHANGED <<batchVars, loaderVars, managerVars, projVars>>

\* wizardBattle.handleClick()
CallHandleClick ==
    /\ battle' = BattleHandleClick(battle)
    /\ battleCall' = CallRecord("handleClick", 0, battleCall.pushed \/ battle.state = "active",
                                battleCall.updates)
    /\ UNCHANGED <<battleFrame, characterCall, directionCall>>
    /\ UNCHANGED <<batchVars, loaderVars, managerVars, projVars>>

\* wizardBattle.update(deltaTime)
CallUpdate ==
    \E dt \in BattleDeltas :
        /\ battle' = BattleUpdate(battle, dt)
        /\ battleCall' = CallRecord("update", dt, battleCall.pushed, Min(2, battleCall.updates + 1))
        /\ UNCHANGED <<battleFrame, characterCall, directionCall>>
        /\ UNCHANGED <<batchVars, loaderVars, managerVars, projVars>>

\* C25: a player push is applied only to the battle during which it was
\* requested: the first update(dt) after a start() moves the lightning position
\* from 0.5 by +WIZARD_PUSH_SPEED * dt unless playerPush() was called after
\* that start(); a push requested before a previous battle ended never affects
\* a later battle.
C25_PushStaysInBattle ==
    (/\ battleCall.op = "update"
     /\ battleCall.before.state = "active"
     /\ battleCall.updates = 1
     /\ ~battleCall.pushed)
        => battle.lightningPosition = 500 + (WIZARD_PUSH_SPEED * battleCall.dt) \div 1000

\* C26: the battle's window keydown handler is registered exactly when the
\* state is not idle, and at most one such handler is registered at any time:
\* every handler registered by start() is removed when the battle ends.
C26_OneKeyHandler ==
    battle.listeners = IF battle.state # "idle" THEN 1 ELSE 0

\* the states in which the result of a battle is shown
ResultStates == {"playerWin", "wizardWin"}

C28_BattleEnds ==
    /\ (battle.state = "active") ~> (battle.state = "wizardWin")
    /\ (battle.state \in ResultStates) ~> (battle.state = "idle")
    /\ [][ (tickTrace' # tickTrace /\ battle.state = "idle") =>
               /\ tickTrace'.regime = "follow"
               /\ (~isFullscreen /\ openPanel = NoPanel) => tickTrace'.moved ]_vars

\* the result time of a lost battle has run out: the battle is idle again, its
\* handler is removed, and the frame after it has moved the character
C28_Witness ==
    /\ battle.state = "idle"
    /\ battle.lightningPosition >= 920
    /\ battle.resultTimer > ResultDisplayTime
    /\ battle.listeners = 0
    /\ tickTrace.regime = "follow"
    /\ tickTrace.moved
    /\ character.state = "walk"

\* the interactables whose hitbox centre is within d px of the position pos
Within(pos, d) ==
    {i \in 1..Len(Interactables) :
        CentreDistSq(pos, Interactables[i].hitbox) <= d * d}

\* C24: when a tick processes an interact input with no modal open and no
\* battle active, and the player is within INTERACT_RANGE of a TODO location
\* and of no other interactable, that location's content panel is open at the
\* end of the tick: one interact input toggles the panel exactly once.
C24_PanelOpensOnce ==
    [][ (TickStep /\ tickTrace'.interact /\ ~tickTrace'.modal /\ ~tickTrace'.active) =>
            \A i \in 1..Len(Interactables) :
                (Interactables[i].id \in TodoIds /\ Within(tickTrace'.updated, 200) = {i})
                    => openPanel' = Interactables[i].id ]_vars

\* C23: whenever a press on the canvas is converted to a world-space movement
\* target, the camera offset added to the screen coordinates is the offset the
\* most recently rendered frame was drawn with: the target is the world point
\* displayed under the pointer.
C23_TargetUnderPointer ==
    [][ (touch'.target.set /\ touch'.target # touch.target) =>
            \E p \in ClickPoints :
                /\ touch'.target.x = p.x + renderedCamera.x
                /\ touch'.target.y = p.y + renderedCamera.y ]_vars

\* C29: a pointer press on the canvas while the battle is active (a push of the
\* lightning or the dismissal of the result) is not turned into character
\* movement: no step taken while the battle is active gives the touch input a
\* new movement target, so the character has nothing to walk to when the
\* battle has ended.
C29_NoTargetInBattle ==
    [][ (IsActive(battle) /\ touch'.target.set) => touch'.target = touch.target ]_vars

\* the 8-way compass name of each direction of DirectionInputs: east is +x,
\* south is +y
CompassName(dir) ==
    CASE dir = [x |-> 1000, y |-> 0]     -> "e"
      [] dir = [x |-> 707, y |-> 707]    -> "se"
      [] dir = [x |-> 0, y |-> 1000]     -> "s"
      [] dir = [x |-> -707, y |-> 707]   -> "sw"
      [] dir = [x |-> -1000, y |-> 0]    -> "w"
      [] dir = [x |-> -707, y |-> -707]  -> "nw"
      [] dir = [x |-> 0, y |-> -1000]    -> "n"
      [] dir = [x |-> 707, y |-> -707]   -> "ne"
      [] dir = [x |-> 600, y |-> -800]   -> "ne"
      [] dir = [x |-> 923, y |-> 384]    -> "se"
      [] dir = [x |-> -384, y |-> 923]   -> "sw"
      [] dir = [x |-> -923, y |-> -384]  -> "nw"

DirectionKeys == {"w", "a", "s", "d", "arrowup", "arrowdown", "arrowleft", "arrowright"}

\* the character positions given to InputManager.update and the points of the
\* mouse presses (camera offset 0): all on one line of slope 4/3, so that every
\* distance between them is a whole number of px; (618, 824) lies 30 px and
\* (612, 816) 20 px from the second position
InputPositions == { [x |-> 600, y |-> 800] }
PressPoints == { [x |-> 300, y |-> 400], [x |-> 618, y |-> 824], [x |-> 612, y |-> 816] }

\* the game variables an input event or call leaves alone
inputFrame == <<running, lastTime, now, frameTime, pending, ready, ticks, lastEvent,
                cameraX, cameraY, renderedCamera, frame, canvas, dpr, renderer, character,
                battle, openPanel, isFullscreen, darkMode, tickTrace>>

\* KeyboardInput._onKeyDown for a movement key
PressKey ==
    \E k \in DirectionKeys \ keyboard.keys :
        /\ keyboard' = [keyboard EXCEPT !.keys = keyboard.keys \cup {k}]
        /\ directionCall' = [op |-> "keydown"]
        /\ UNCHANGED <<touch, inputFrame, characterCall, battleCall>>
        /\ UNCHANGED <<batchVars, loaderVars, managerVars, projVars>>

\* KeyboardInput._onKeyUp for a movement key
ReleaseKey ==
    \E k \in keyboard.keys :
        /\ keyboard' = [keyboard EXCEPT !.keys = keyboard.keys \ {k}]
        /\ directionCall' = [op |-> "keyup"]
        /\ UNCHANGED <<touch, inputFrame, characterCall, battleCall>>
        /\ UNCHANGED <<batchVars, loaderVars, managerVars, projVars>>

\* TouchInput._onMouseDown with the left button
MouseDown ==
    \E p \in PressPoints :
        /\ touch' = [touch EXCEPT !.target = ScreenToWorld(touch, p)]
        /\ directionCall' = [op |-> "mousedown"]
        /\ UNCHANGED <<keyboard, inputFrame, characterCall, battleCall>>
        /\ UNCHANGED <<batchVars, loaderVars, managerVars, projVars>>

\* InputManager.update(characterPosition)
InputUpdate ==
    \E pos \in InputPositions :
        /\ touch' = TouchSetCharacterPosition(touch, pos)
        /\ directionCall' = [op |-> "update"]
        /\ UNCHANGED <<keyboard, inputFrame, characterCall, battleCall>>
        /\ UNCHANGED <<batchVars, loaderVars, managerVars, projVars>>

\* InputManager.getDirection(): the keyboard direction when it is not zero
\* (the touch target is cleared), the touch direction otherwise
GetDirection ==
    LET keyboardDir == KeyboardDirection(keyboard.keys)
        byKeyboard  == keyboardDir.x # 0 \/ keyboardDir.y # 0
    IN  /\ touch' = IF byKeyboard THEN [touch EXCEPT !.target = NoTarget]
                    ELSE TouchAfterDirection(touch)
        /\ directionCall' = [op |-> "getDirection", keys |-> keyboard.keys, touch |-> touch,
                             result |-> IF byKeyboard THEN keyboardDir ELSE TouchDirection(touch)]
        /\ UNCHANGED <<keyboard, inputFrame, characterCall, battleCall>>
        /\ UNCHANGED <<batchVars, loaderVars, managerVars, projVars>>

\* 1 when one of two keys was held at the last getDirection call, else 0
Held(k1, k2) == IF k1 \in directionCall.keys \/ k2 \in directionCall.keys THEN 1 ELSE 0

\* C22: the direction returned by InputManager.getDirection() is the zero
\* vector or a vector of length 1 (to the model's thousandths): opposite keys
\* cancel on their axis, a diagonal key combination yields components of
\* magnitude 0.707, and with no keyboard direction a touch target beyond the
\* arrival threshold yields the normalised vector towards it.
C22_UnitOrZero ==
    directionCall.op = "getDirection" =>
        LET v  == directionCall.result
            kx == Held("d", "arrowright") - Held("a", "arrowleft")
            ky == Held("s", "arrowdown") - Held("w", "arrowup")
            t  == directionCall.touch
            dx == t.target.x - t.charX
            dy == t.target.y - t.charY
        IN  /\ \/ v = [x |-> 0, y |-> 0]
               \/ v.x * v.x + v.y * v.y - UnitLength * UnitLength \in -1000..1000
            /\ (kx # 0 /\ ky # 0) => v = [x |-> kx * 707, y |-> ky * 707]
            /\ (kx # 0 /\ ky = 0) => v = [x |-> kx * 1000, y |-> 0]
            /\ (kx = 0 /\ ky # 0) => v = [x |-> 0, y |-> ky * 1000]
            /\ (kx = 0 /\ ky = 0 /\ ~t.target.set) => v = [x |-> 0, y |-> 0]
            /\ (kx = 0 /\ ky = 0 /\ t.target.set /\ dx * dx + dy * dy >= 30 * 30) =>
                   /\ v.x * dy = v.y * dx
                   /\ v.x * dx + v.y * dy > 0
                   /\ v # [x |-> 0, y |-> 0]

\* d (right) and w (up) were held with a touch target set: the call returned
\* (0.707, -0.707), not (1, -1), and cleared the target
C22_Witness ==
    /\ directionCall.op = "getDirection"
    /\ directionCall.keys = {"d", "w"}
    /\ directionCall.touch.target.set
    /\ directionCall.result = [x |-> 707, y |-> -707]
    /\ ~touch.target.set

(***************************************************************************)
(* Specifications                                                          *)
(***************************************************************************)
Init == InitBatch /\ InitGame /\ InitLoader /\ InitManager /\ InitProjected /\ InitCalls

NextBatch == Begin \/ Draw \/ DrawRect \/ End \/ SetGlobalTint

SpecBatch == Init /\ [][NextBatch]_vars

NextLoop == Start \/ Stop \/ AdvanceClock \/ HostFrame \/ RunCallback

SpecLoop == Init /\ [][NextLoop]_vars

NextLoader == LoadTexture \/ LoadSprite \/ ImageLoaded \/ ImageError \/ Dispose

SpecLoader == Init /\ [][NextLoader]_vars

NextManager ==
    AddInteractable \/ RemoveInteractable \/ CheckInteractionCall \/ UpdateInteractables

SpecManager == Init /\ [][NextManager]_vars

NextCharacter == UpdateCharacter

SpecCharacter == Init /\ [][NextCharacter]_vars

NextInput == PressKey \/ ReleaseKey \/ MouseDown \/ InputUpdate \/ GetDirection

SpecInput == Init /\ [][NextInput]_vars

NextBattle == CallStart \/ CallEnd \/ CallPlayerPush \/ CallHandleClick \/ CallUpdate

SpecBattle == Init /\ [][NextBattle]_vars

\* input events arrive until the clock passes MaxTime; frames keep coming
InputTime == now + ClockStep <= MaxTime

NextLive ==
    \/ Start \/ AdvanceClock \/ HostFrame \/ RunCallback \/ SteadyFrame
    \/ (InputTime /\ KeyDown) \/ (InputTime /\ KeyUp) \/ (InputTime /\ SpaceDown)

SpecLive ==
    /\ Init /\ [][NextLive]_vars
    /\ WF_vars(AdvanceClock) /\ WF_vars(HostFrame) /\ WF_vars(RunCallback)
    /\ WF_vars(SteadyFrame)

InitProjection ==
    /\ InitBatch
    /\ \E d \in SurfaceDisplays : InitGameIn(d)
    /\ InitLoader
    /\ InitManager
    /\ InitProjected
    /\ InitCalls

NextProjection == ProjectVertex

SpecProjection == InitProjection /\ [][NextProjection]_vars

NextWorld ==
    Start \/ AdvanceClock \/ Stall \/ HostFrame \/ RunCallback \/ KeyDown \/ KeyUp
          \/ SpaceDown \/ CanvasClick \/ RightClick \/ OpenFullscreen \/ EscapeDown

SpecWorld == Init /\ [][NextWorld]_vars

InitAnywhere == InitBatch /\ InitGameAnywhere /\ InitLoader /\ InitManager /\ InitProjected /\ InitCalls

NextSurface == Start \/ AdvanceClock \/ HostFrame \/ RunCallback \/ Resize

SpecSurface == InitAnywhere /\ [][NextSurface]_vars

NextCamera == Start \/ AdvanceClock \/ HostFrame \/ RunCallback
              \/ KeyDown \/ KeyUp \/ SpaceDown \/ Resize

SpecCamera == Init /\ [][NextCamera]_vars

====
